---- MODULE Spec2Model ----
(***************************************************************************)
(* Model of the alert evaluation, log field extraction and dashboard       *)
(* access gate of the central logging dashboard.                           *)
(*                                                                         *)
(* Readings are fixed-point numbers in tenths (450 is 45.0), so that the   *)
(* thresholds of ALERT_RULES and readings such as 44.9 are exact.  Time is *)
(* in seconds.                                                             *)
(***************************************************************************)
EXTENDS Integers, Sequences, FiniteSets, TLC

VARIABLES
    index,      \* the documents stored in the Elasticsearch index
    loki,       \* the log lines stored in Loki
    es_client,  \* the module's Elasticsearch client, "None" when it failed
    now,        \* the wall clock, in seconds
    pass,       \* the update_dashboard pass that has just completed
    prev,       \* the pass before it
    server,     \* the script the web server was started from
    mounted,    \* the Dash application is attached to the server
    response,   \* the answer to the request served last
    users,      \* the users collection of the iot_project database
    cookies,    \* test_auth.py: the token the client got from its last login
    rules,      \* the dict ALERT_RULES as the dashboard module holds it
    calls,      \* the calls of check_alerts in progress, one per pass
    signups,    \* the calls of signup in progress, one per request thread
    search      \* the search bar: its input, its buttons and the stored filter

vars == <<index, loki, es_client, now, pass, prev, server, mounted, response,
          users, cookies, rules, calls, signups, search>>
web == <<server, mounted, response, users, cookies>>
running == <<rules, calls, signups, search>>

(***************************************************************************)
(* Bounds of the model.                                                    *)
(***************************************************************************)
MaxDocs == 2          \* documents the index holds
MaxLogs == 1          \* log lines Loki holds
MaxTicks == 2         \* clock ticks of a run
MaxUsers == 2         \* users the collection holds

(***************************************************************************)
(* JSON values as pandas sees them.                                        *)
(***************************************************************************)
Num(n) == [k |-> "num", v |-> n]
Str == [k |-> "str", v |-> 0]         \* a non-numeric (string) value
Absent == [k |-> "absent", v |-> 0]   \* the document has no such key
NaN == [k |-> "nan", v |-> 0]         \* pandas' filler for a missing key
NoneVal == [k |-> "none", v |-> 0]    \* Python None

\* ALERT THRESHOLDS, in tenths
ALERT_RULES ==
    [temperature |-> [high |-> 350, critical |-> 450, low |-> 180],
     humidity    |-> [high |-> 700, critical |-> 850, low |-> 300],
     cpu         |-> [warning |-> 600, critical |-> 900],
     memory      |-> [warning |-> 600, critical |-> 850],
     disk        |-> [warning |-> 800, critical |-> 950],
     packet_loss |-> [warning |-> 20, critical |-> 50]]

AlertWindow == 30       \* seconds: check_alerts
TableWindow == 600      \* seconds: generate_alerts_table
QueryWindow == 3600     \* seconds: query_data(hours_back=1)
QuerySize == 1000       \* query_data(size=1000)
BannerSize == 5         \* generate_alert_banner: alerts[:5]
KpiWindow == 300        \* seconds: generate_kpi_cards

\* The clock advances by one alert window, so that a document is seen
\* inside the window, on its edge (30 seconds old) and outside it.
TickSeconds == AlertWindow

(***************************************************************************)
(* Documents.  A document is what a simulator indexes: a timestamp, the    *)
(* discriminator sensor_type (log records carry log_type instead and have  *)
(* no sensor_type key) and the reading fields.                             *)
(***************************************************************************)
NoType == "<absent>"

ReadingFields == {"temperature", "humidity", "value",
                  "cpu_percent", "memory_percent", "disk_percent",
                  "packet_loss_percent"}

BlankDoc ==
    [ts |-> 0, sensor_type |-> NoType,
     temperature |-> Absent, humidity |-> Absent, value |-> Absent,
     cpu_percent |-> Absent, memory_percent |-> Absent, disk_percent |-> Absent,
     packet_loss_percent |-> Absent]

\* a log record (application_logger_cloud.py, security_logger_cloud.py)
LogDoc == BlankDoc

\* a sensor document carrying its reading in field f
SensorDoc(st, f, val) == [[BlankDoc EXCEPT !.sensor_type = st] EXCEPT ![f] = val]

\* a system_health document
SysDoc(c, m, d) ==
    [BlankDoc EXCEPT !.sensor_type = "system_health", !.cpu_percent = c,
                     !.memory_percent = m, !.disk_percent = d]

\* a network_device document (network_devices_cloud.py)
NetDoc(loss) ==
    [BlankDoc EXCEPT !.sensor_type = "network_device",
                     !.packet_loss_percent = loss]

TempReadings == {Num(349), Num(449), Num(450), Str}
HumReadings == {Num(699), Num(850), Str}

TempShapes ==
    {SensorDoc("temperature", "value", v) : v \in TempReadings}
    \cup {SensorDoc("temperature", "temperature", Num(450)),
          [BlankDoc EXCEPT !.sensor_type = "temperature"]}

HumShapes ==
    {SensorDoc("humidity", "value", v) : v \in HumReadings}
    \cup {SensorDoc("humidity", "humidity", Num(700))}

SysShapes ==
    {SysDoc(Num(599), Num(599), Num(799)),
     SysDoc(Num(900), Absent, Num(950)),
     SysDoc(Num(600), Num(850), Num(800)),
     SysDoc(Str, Num(600), Absent),
     SysDoc(Num(900), Num(599), Str)}

Shapes == TempShapes \cup HumShapes \cup SysShapes \cup {LogDoc}

(***************************************************************************)
(* pandas: the DataFrame built from the hits.  Its columns are the keys    *)
(* any row has; a row lacking a key of the frame holds NaN there.          *)
(***************************************************************************)
HasKey(row, f) ==
    IF f = "sensor_type" THEN row.sensor_type # NoType ELSE row[f] # Absent

Columns(df) ==
    {f \in ReadingFields \cup {"sensor_type"} :
        \E i \in 1..Len(df) : HasKey(df[i], f)}

\* a frame that filled a missing key with None instead of NaN
CellNone(row, f) == IF row[f] = Absent THEN NoneVal ELSE row[f]

\* row[f] for a column f of the frame
Cell(row, f) == IF row[f] = Absent THEN NaN ELSE row[f]

\* row.get(f, default)
Get(row, f, cols, default) == IF f \in cols THEN Cell(row, f) ELSE default

\* df[df['sensor_type'] == st]
OfType(df, st) == SelectSeq(df, LAMBDA r : r.sensor_type = st)

\* df[df['@timestamp'] >= t - window]
Since(df, t, window) == SelectSeq(df, LAMBDA r : r.ts >= t - window)

(***************************************************************************)
(* check_alerts.  An outcome is the alerts list built so far and where the *)
(* call raised ("none" when it returned the list).                         *)
(***************************************************************************)
Alert(metric, severity, val) ==
    [metric |-> metric, severity |-> severity, value |-> val.v]

Returned(alerts) == [alerts |-> alerts, raised |-> "none"]
Raised(alerts, where) == [alerts |-> alerts, raised |-> where]

\* the bands tested low-to-high: the order the code does not use
ThresholdCheckLowFirst(val, metric, critical, low) ==
    IF val.k \in {"str", "none"} THEN [alerts |-> <<>>, raised |-> metric]
    ELSE IF val.k = "num" /\ val.v >= low
         THEN [alerts |-> <<Alert(metric, "WARNING", val)>>, raised |-> "none"]
    ELSE IF val.k = "num" /\ val.v >= critical
         THEN [alerts |-> <<Alert(metric, "CRITICAL", val)>>, raised |-> "none"]
    ELSE [alerts |-> <<>>, raised |-> "none"]

\* the bands with exclusive boundaries (> for >=)
ThresholdCheckExclusive(val, metric, critical, low) ==
    IF val.k \in {"str", "none"} THEN [alerts |-> <<>>, raised |-> metric]
    ELSE IF val.k = "num" /\ val.v > critical
         THEN [alerts |-> <<Alert(metric, "CRITICAL", val)>>, raised |-> "none"]
    ELSE IF val.k = "num" /\ val.v > low
         THEN [alerts |-> <<Alert(metric, "WARNING", val)>>, raised |-> "none"]
    ELSE [alerts |-> <<>>, raised |-> "none"]

\* the two bands tested by two separate ifs (if / if for if / elif)
ThresholdCheckBoth(val, metric, critical, low) ==
    IF val.k \in {"str", "none"} THEN [alerts |-> <<>>, raised |-> metric]
    ELSE [alerts |->
             (IF val.k = "num" /\ val.v >= critical
              THEN <<Alert(metric, "CRITICAL", val)>> ELSE <<>>)
             \o (IF val.k = "num" /\ val.v >= low
                 THEN <<Alert(metric, "WARNING", val)>> ELSE <<>>),
          raised |-> "none"]

\* if val >= critical: CRITICAL / elif val >= low: WARNING.  A comparison
\* with NaN is False; comparing a str or None with a number raises TypeError.
ThresholdCheck(val, metric, critical, low) ==
    IF val.k \in {"str", "none"} THEN Raised(<<>>, metric)
    ELSE IF val.k = "num" /\ val.v >= critical
         THEN Returned(<<Alert(metric, "CRITICAL", val)>>)
    ELSE IF val.k = "num" /\ val.v >= low
         THEN Returned(<<Alert(metric, "WARNING", val)>>)
    ELSE Returned(<<>>)

\* alerts.insert(0, ...) for alerts.append(...): later alerts come first
ThenPrepend(a, b) ==
    IF a.raised # "none" THEN a
    ELSE [alerts |-> b.alerts \o a.alerts, raised |-> b.raised]

\* statements in sequence: b runs only when a did not raise
Then(a, b) ==
    IF a.raised # "none" THEN a
    ELSE [alerts |-> a.alerts \o b.alerts, raised |-> b.raised]

\* data.iloc[0]
iloc0(data) == data[1]

\* temp_data.iloc[0][own] / ['value'] / None
LatestReading(data, cols, own) ==
    IF own \in cols THEN Cell(iloc0(data), own)
    ELSE IF "value" \in cols THEN Cell(iloc0(data), "value")
    ELSE NoneVal

\* the three blocks of check_alerts, reading the thresholds from the rule
\* table the module holds at the time
TemperatureBlock(table, recent, cols) ==
    LET temp_data == OfType(recent, "temperature")
        latest_temp == LatestReading(temp_data, cols, "temperature")
    IN IF temp_data = <<>> \/ latest_temp = NoneVal THEN Returned(<<>>)
       ELSE ThresholdCheck(latest_temp, "temperature",
                           table.temperature.critical,
                           table.temperature.high)

HumidityBlock(table, recent, cols) ==
    LET hum_data == OfType(recent, "humidity")
        latest_hum == LatestReading(hum_data, cols, "humidity")
    IN IF hum_data = <<>> \/ latest_hum = NoneVal THEN Returned(<<>>)
       ELSE ThresholdCheck(latest_hum, "humidity",
                           table.humidity.critical,
                           table.humidity.high)

SystemBlock(table, recent, cols) ==
    LET sys_data == OfType(recent, "system_health")
        latest_sys == iloc0(sys_data)
        cpu == Get(latest_sys, "cpu_percent", cols, Num(0))
        memory == Get(latest_sys, "memory_percent", cols, Num(0))
        disk == Get(latest_sys, "disk_percent", cols, Num(0))
    IN IF sys_data = <<>> THEN Returned(<<>>)
       ELSE Then(Then(ThresholdCheck(cpu, "cpu", table.cpu.critical,
                                     table.cpu.warning),
                      ThresholdCheck(memory, "memory",
                                     table.memory.critical,
                                     table.memory.warning)),
                 ThresholdCheck(disk, "disk", table.disk.critical,
                                table.disk.warning))

CheckTemperature(recent, cols) == TemperatureBlock(ALERT_RULES, recent, cols)
CheckHumidity(recent, cols) == HumidityBlock(ALERT_RULES, recent, cols)
CheckSystem(recent, cols) == SystemBlock(ALERT_RULES, recent, cols)

\* recent_df cut at the query's window instead of the alert window
RecentDfHour(df, t) == Since(df, t, QueryWindow)

\* recent_df of check_alerts
RecentDf(df, t) == Since(df, t, AlertWindow)

\* check_alerts with a window open at its far end (> for >=)
check_alerts_open(df, t) ==
    LET recent_df == SelectSeq(df, LAMBDA r : r.ts > t - AlertWindow)
        cols == Columns(df)
    IN IF recent_df = <<>> THEN Returned(<<>>)
       ELSE IF "sensor_type" \notin cols THEN Raised(<<>>, "sensor_type")
       ELSE Then(Then(CheckTemperature(recent_df, cols),
                      CheckHumidity(recent_df, cols)),
                 CheckSystem(recent_df, cols))

check_alerts(df, t) ==
    LET recent_df == RecentDf(df, t)
        cols == Columns(df)
    IN IF recent_df = <<>> THEN Returned(<<>>)
       ELSE IF "sensor_type" \notin cols THEN Raised(<<>>, "sensor_type")
       ELSE Then(Then(CheckTemperature(recent_df, cols),
                      CheckHumidity(recent_df, cols)),
                 CheckSystem(recent_df, cols))

(***************************************************************************)
(* Text.  A message is a sequence of characters; the regular expressions   *)
(* of the field extractor are matched on it character by character.        *)
(***************************************************************************)
DigitChars == <<"0", "1", "2", "3", "4", "5", "6", "7", "8", "9">>
UpperChars == <<"A", "B", "C", "D", "E", "F", "G", "H", "I", "J", "K", "L", "M",
                "N", "O", "P", "Q", "R", "S", "T", "U", "V", "W", "X", "Y", "Z">>
LowerChars == <<"a", "b", "c", "d", "e", "f", "g", "h", "i", "j", "k", "l", "m",
                "n", "o", "p", "q", "r", "s", "t", "u", "v", "w", "x", "y", "z">>

Range(s) == {s[i] : i \in DOMAIN s}
Digit == Range(DigitChars)                  \* \d
Sep == {":", "=", " ", "\t", "\n"}           \* [:\s=]
DigitVal(c) == (CHOOSE i \in DOMAIN DigitChars : DigitChars[i] = c) - 1

\* str.lower()
LowerChar(c) ==
    IF c \in Range(UpperChars)
    THEN LowerChars[CHOOSE i \in DOMAIN UpperChars : UpperChars[i] = c]
    ELSE c
Lower(s) == [i \in DOMAIN s |-> LowerChar(s[i])]

\* s[i:i+len(w)] == w
HasAt(s, i, w) ==
    /\ i >= 1
    /\ i + Len(w) - 1 <= Len(s)
    /\ \A j \in 1..Len(w) : s[i + j - 1] = w[j]

\* w in s
Contains(s, w) == \E i \in 1..(Len(s) + 1) : HasAt(s, i, w)

\* the end (exclusive) of the longest run of characters of class cs from i
RECURSIVE RunEnd(_, _, _)
RunEnd(s, i, cs) ==
    IF i <= Len(s) /\ s[i] \in cs THEN RunEnd(s, i + 1, cs) ELSE i

RECURSIVE Pow10(_)
Pow10(n) == IF n = 0 THEN 1 ELSE 10 * Pow10(n - 1)

\* int(digits)
RECURSIVE ParseInt(_)
ParseInt(ds) ==
    IF ds = <<>> THEN 0
    ELSE 10 * ParseInt(SubSeq(ds, 1, Len(ds) - 1)) + DigitVal(ds[Len(ds)])

\* a decimal number m / 10^e, without trailing zeros in the fraction
RECURSIVE Normal(_)
Normal(x) ==
    IF x.e > 0 /\ x.m % 10 = 0 THEN Normal([m |-> x.m \div 10, e |-> x.e - 1])
    ELSE x

\* float(text) for text matching \d+\.?\d*
ParseFloat(text) ==
    LET dot == RunEnd(text, 1, Digit)
        frac == IF dot <= Len(text) THEN SubSeq(text, dot + 1, Len(text)) ELSE <<>>
    IN Normal([m |-> ParseInt(SubSeq(text, 1, dot - 1) \o frac), e |-> Len(frac)])

NoMatch == [found |-> FALSE, group |-> <<>>]

\* float(text) returns: text, made of digits and dots, has a digit and at
\* most one dot; otherwise float raises ValueError
FloatLiteral(text) ==
    /\ \E i \in 1..Len(text) : text[i] \in Digit
    /\ Cardinality({i \in 1..Len(text) : text[i] = "."}) <= 1
    /\ \A i \in 1..Len(text) : text[i] \in Digit \cup {"."}

\* int(text) returns: text is a run of digits; otherwise int raises
IntLiteral(text) ==
    text # <<>> /\ \A i \in 1..Len(text) : text[i] \in Digit

\* a match of  [Xx]name[:\s=]+(\d*\.?\d*)  : the digits optional
MatchReadingAtLoose(s, i, first, rest, decimal) ==
    LET a == i + 1 + Len(rest)
        b == RunEnd(s, a, Sep)
        c == RunEnd(s, b, Digit)
        d == IF decimal /\ c <= Len(s) /\ s[c] = "." THEN c + 1 ELSE c
        e == IF decimal THEN RunEnd(s, d, Digit) ELSE c
    IN IF /\ i <= Len(s) /\ s[i] \in first
          /\ HasAt(s, i + 1, rest)
          /\ b > a
       THEN [found |-> TRUE, group |-> SubSeq(s, b, e - 1)]
       ELSE [found |-> FALSE, group |-> <<>>]

\* a match of  [Xx]name[:\s=]+(\d+\.?\d*)  starting at i, where first is the
\* set of first letters and rest the remaining letters of the name
MatchReadingAt(s, i, first, rest, decimal) ==
    LET a == i + 1 + Len(rest)              \* after the name
        b == RunEnd(s, a, Sep)            \* after [:\s=]+ (greedy)
        c == RunEnd(s, b, Digit)          \* after \d+
        d == IF decimal /\ c <= Len(s) /\ s[c] = "." THEN c + 1 ELSE c
        e == IF decimal THEN RunEnd(s, d, Digit) ELSE c
    IN IF /\ i <= Len(s) /\ s[i] \in first
          /\ HasAt(s, i + 1, rest)
          /\ b > a
          /\ c > b
       THEN [found |-> TRUE, group |-> SubSeq(s, b, e - 1)]
       ELSE NoMatch

\* re.search: the leftmost match
SearchReading(s, first, rest, decimal) ==
    LET hits == {i \in 1..Len(s) : MatchReadingAt(s, i, first, rest, decimal).found}
    IN IF hits = {} THEN NoMatch
       ELSE MatchReadingAt(s, CHOOSE i \in hits : \A j \in hits : i <= j,
                           first, rest, decimal)

emperature == <<"e", "m", "p", "e", "r", "a", "t", "u", "r", "e">>
umidity == <<"u", "m", "i", "d", "i", "t", "y">>
otion == <<"o", "t", "i", "o", "n">>
motion_detected == <<"m">> \o otion \o <<" ", "d", "e", "t", "e", "c", "t", "e", "d">>

\* re.search(r'[Tt]emperature[:\s=]+(\d+\.?\d*)', msg)
temp_match(msg) == SearchReading(msg, {"T", "t"}, emperature, TRUE)
\* re.search(r'[Hh]umidity[:\s=]+(\d+\.?\d*)', msg)
humidity_match(msg) == SearchReading(msg, {"H", "h"}, umidity, TRUE)
\* re.search(r'[Mm]otion[:\s=]+(\d+)', msg)
motion_match(msg) == SearchReading(msg, {"M", "m"}, otion, FALSE)

(***************************************************************************)
(* The field extractor of generate_loki_logs_section.  A log row is        *)
(* [ts, message, host]; a fragment is [timestamp, value, host].            *)
(***************************************************************************)
Fragment(row, value) == [timestamp |-> row.ts, value |-> value, host |-> row.host]

TempFragments(row) ==
    LET m == temp_match(row.message)
    IN IF m.found THEN <<Fragment(row, ParseFloat(m.group))>> ELSE <<>>

\* humidity looked for only when no temperature was found (an elif chain)
HumidityFragmentsElif(row) ==
    LET m == humidity_match(row.message)
    IN IF temp_match(row.message).found THEN <<>>
       ELSE IF m.found THEN <<Fragment(row, ParseFloat(m.group))>>
       ELSE <<>>

HumidityFragments(row) ==
    LET m == humidity_match(row.message)
    IN IF m.found THEN <<Fragment(row, ParseFloat(m.group))>> ELSE <<>>

\* motion from the explicit number alone, without the phrase
MotionFragmentsExplicit(row) ==
    LET m == motion_match(row.message)
    IN IF m.found THEN <<Fragment(row, ParseInt(m.group))>> ELSE <<>>

\* the motion branch with the 'motion detected' test as an if of its own
MotionFragmentsBoth(row) ==
    LET m == motion_match(row.message)
    IN (IF m.found THEN <<Fragment(row, ParseInt(m.group))>> ELSE <<>>)
       \o (IF Contains(Lower(row.message), motion_detected)
           THEN <<Fragment(row, 1)>> ELSE <<>>)

MotionFragments(row) ==
    LET m == motion_match(row.message)
    IN IF m.found THEN <<Fragment(row, ParseInt(m.group))>>
       ELSE IF Contains(Lower(row.message), motion_detected)
            THEN <<Fragment(row, 1)>>
       ELSE <<>>

Fragments(row, family) ==
    CASE family = "temperature" -> TempFragments(row)
      [] family = "humidity" -> HumidityFragments(row)
      [] family = "motion" -> MotionFragments(row)

\* for _, row in logs_df.iterrows(): ... .append(...)
RECURSIVE Collect(_, _)
Collect(rows, family) ==
    IF rows = <<>> THEN <<>>
    ELSE Fragments(Head(rows), family) \o Collect(Tail(rows), family)

NoSection ==
    [status |-> "none", temp_data |-> <<>>, humidity_data |-> <<>>,
     motion_data |-> <<>>]

\* float(temp_match.group(1)), float(humidity_match.group(1)) or
\* int(motion_match.group(1)) raises ValueError on some row
ExtractionRaises(rows) ==
    \E i \in 1..Len(rows) :
        LET msg == rows[i].message
        IN \/ temp_match(msg).found /\ ~ FloatLiteral(temp_match(msg).group)
           \/ humidity_match(msg).found
                 /\ ~ FloatLiteral(humidity_match(msg).group)
           \/ motion_match(msg).found /\ ~ IntLiteral(motion_match(msg).group)

generate_loki_logs_section(logs_df) ==
    IF logs_df = <<>> THEN [NoSection EXCEPT !.status = "no_logs"]
    ELSE IF ExtractionRaises(logs_df)
    THEN \* except Exception: "Error loading logs"
         [NoSection EXCEPT !.status = "error"]
    ELSE [status |-> "ok",
          temp_data |-> Collect(logs_df, "temperature"),
          humidity_data |-> Collect(logs_df, "humidity"),
          motion_data |-> Collect(logs_df, "motion")]

(***************************************************************************)
(* generate_alerts_table.  A table row is [type, severity, value], the     *)
(* value a decimal number as the extractor parses it.                      *)
(***************************************************************************)
\* x >= threshold for a parsed float x and a threshold in tenths
GeTenths(x, threshold) == x.m * 10 >= threshold * Pow10(x.e)

Tenths(n) == Normal([m |-> n, e |-> 1])

TableRow(type, severity, x) == [type |-> type, severity |-> severity, value |-> x]

\* a or b: None and 0 are falsy, NaN and a non-empty string are truthy
Or(a, b) == IF a = NoneVal \/ a = Num(0) THEN b ELSE a

\* the rows one Elasticsearch record adds, and whether its comparison raises
EsRowAlerts(row, cols) ==
    LET st == IF "sensor_type" \in cols THEN row.sensor_type ELSE NoType
        own == IF st = "temperature" THEN "temperature" ELSE "humidity"
        type == IF st = "temperature" THEN "Temperature" ELSE "Humidity"
        val == Or(Get(row, own, cols, NoneVal), Get(row, "value", cols, Num(0)))
        r == ThresholdCheck(val, own, ALERT_RULES[own].critical, ALERT_RULES[own].high)
    IN IF st \notin {"temperature", "humidity"} THEN Returned(<<>>)
       ELSE IF r.raised # "none" THEN r
       ELSE Returned([i \in DOMAIN r.alerts |->
                        TableRow(type, r.alerts[i].severity, Tenths(r.alerts[i].value))])

RECURSIVE EsAlertRecords(_, _)
EsAlertRecords(rows, cols) ==
    IF rows = <<>> THEN Returned(<<>>)
    ELSE Then(EsRowAlerts(Head(rows), cols), EsAlertRecords(Tail(rows), cols))

LokiReading(type, family, m) ==
    LET x == ParseFloat(m.group)
    IN IF ~m.found THEN <<>>
       ELSE IF GeTenths(x, ALERT_RULES[family].critical)
            THEN <<TableRow(type, "CRITICAL", x)>>
       ELSE IF GeTenths(x, ALERT_RULES[family].high)
            THEN <<TableRow(type, "WARNING", x)>>
       ELSE <<>>

RECURSIVE LokiAlertRecords(_)
LokiAlertRecords(rows) ==
    IF rows = <<>> THEN <<>>
    ELSE LokiReading("Temperature", "temperature", temp_match(Head(rows).message))
         \o LokiReading("Humidity", "humidity", humidity_match(Head(rows).message))
         \o LokiAlertRecords(Tail(rows))

TableSize == 10        \* pd.DataFrame(alert_records).head(10)

FirstN(s, n) == SubSeq(s, 1, IF Len(s) < n THEN Len(s) ELSE n)

\* df the Elasticsearch frame, loki_logs what query_logs returns for the
\* last 10 minutes; the result is the rows shown, or where it raised
generate_alerts_table(df, t, loki_logs) ==
    LET es == IF df # <<>> THEN EsAlertRecords(Since(df, t, TableWindow), Columns(df))
              ELSE Returned(<<>>)
    IN IF es.raised # "none" THEN es
       ELSE IF es.alerts # <<>> THEN Returned(FirstN(es.alerts, TableSize))
       ELSE Returned(FirstN(LokiAlertRecords(loki_logs), TableSize))

(***************************************************************************)
(* The queries.  Elasticsearch returns the hits of the last hour, newest   *)
(* first; hits of equal timestamp come in either order.  query_logs sorts  *)
(* the lines of its range the same way.                                    *)
(***************************************************************************)
MaxTs(S) == CHOOSE m \in {d.ts : d \in S} : \A d \in S : d.ts <= m

\* the hits oldest first: "order": "asc"
RECURSIVE SortedAsc(_)
SortedAsc(S) ==
    IF S = {} THEN {<<>>}
    ELSE UNION {{rest \o <<d>> : rest \in SortedAsc(S \ {d})} :
                   d \in {x \in S : x.ts = MaxTs(S)}}

\* "sort": [{"@timestamp": {"order": "desc"}}]
RECURSIVE SortedDesc(_)
SortedDesc(S) ==
    IF S = {} THEN {<<>>}
    ELSE UNION {{<<d>> \o rest : rest \in SortedDesc(S \ {d})} :
                   d \in {x \in S : x.ts = MaxTs(S)}}

InRange(S, t, window) == {d \in S : d.ts >= t - window /\ d.ts <= t}

\* the frames query_data(hours_back=1, size=1000) can return
query_data(t) ==
    {FirstN(hits, QuerySize) : hits \in SortedDesc(InRange(index, t, QueryWindow))}

\* the frames query_logs(query, minutes_back) can return
query_logs(t, minutes_back) == SortedDesc(InRange(loki, t, 60 * minutes_back))

(***************************************************************************)
(* update_dashboard.                                                       *)
(***************************************************************************)
NotCalled == [alerts |-> <<>>, raised |-> "not called"]

\* the passes that can be running at once, and a pass not in check_alerts
Passes == {1, 2}
NoCall ==
    [pc |-> "idle", given |-> <<>>, df |-> <<>>, at |-> 0, recent_df |-> <<>>,
     alerts |-> <<>>, raised |-> "none"]

NoPass ==
    [status |-> "none", at |-> 0, df |-> <<>>, check |-> NotCalled,
     banner |-> <<>>, table |-> <<>>, logs |-> <<>>, section |-> NoSection]

\* series.mean(): a string among the values raises TypeError
MeanRaises(data, cols, f) ==
    f \in cols /\ \E i \in 1..Len(data) : Cell(data[i], f) = Str

\* the column generate_kpi_cards averages for a sensor: its own, else 'value'
KpiColumn(cols, own) == IF own \in cols THEN own ELSE "value"

\* generate_kpi_cards raises: recent_df['sensor_type'] without the column, or
\* the mean of a column that holds a string
generate_kpi_cards_raises(df, t) ==
    LET recent_df == Since(df, t, KpiWindow)
        cols == Columns(df)
    IN \/ "sensor_type" \notin cols
       \/ MeanRaises(OfType(recent_df, "temperature"), cols,
                     KpiColumn(cols, "temperature"))
       \/ MeanRaises(OfType(recent_df, "humidity"), cols,
                     KpiColumn(cols, "humidity"))
       \/ MeanRaises(OfType(recent_df, "system_health"), cols, "cpu_percent")

\* a generator between the banner and the alerts table raises: the KPI cards
\* as above, the chart generators on df['sensor_type'] without the column
GeneratorsRaise(df, t) ==
    generate_kpi_cards_raises(df, t) \/ "sensor_type" \notin Columns(df)

\* df: what the query returned (<<>> when it raised or found nothing);
\* table_logs, section_logs: what the two Loki queries returned.  A pass
\* records its time, its frame, the outcome of check_alerts, the alerts of
\* the banner, the rows of the alerts table, and the log rows and fragments of
\* the Loki section.
update_dashboard(df, t, table_logs, section_logs) ==
    LET check == check_alerts(df, t)
        table == generate_alerts_table(df, t, table_logs)
        section == generate_loki_logs_section(section_logs)
        base == [NoPass EXCEPT !.at = t, !.df = df]
    IN IF es_client = "None"
       THEN \* get_no_data_components
            [base EXCEPT !.status = "no_data", !.df = <<>>,
                         !.table = generate_alerts_table(<<>>, t, table_logs).alerts,
                         !.logs = section_logs, !.section = section]
       ELSE IF df = <<>>
       THEN \* get_no_results_components
            [base EXCEPT !.status = "no_results", !.logs = section_logs,
                         !.section = section]
       ELSE IF check.raised # "none"
       THEN \* get_error_components
            [base EXCEPT !.status = "error", !.check = check]
       ELSE IF GeneratorsRaise(df, t) \/ table.raised # "none"
       THEN [base EXCEPT !.status = "error", !.check = check]
       ELSE [base EXCEPT !.status = "ok", !.check = check,
                         !.banner = FirstN(check.alerts, BannerSize),
                         !.table = table.alerts,
                         !.logs = section_logs, !.section = section]

(***************************************************************************)
(* Messages the log shippers send.                                         *)
(***************************************************************************)
Temperature_ == <<"T">> \o emperature
temperature_ == <<"t">> \o emperature
TEMPERATURE_ == <<"T", "E", "M", "P", "E", "R", "A", "T", "U", "R", "E">>
Humidity_ == <<"H">> \o umidity
HUMIDITY_ == <<"H", "U", "M", "I", "D", "I", "T", "Y">>
Motion_ == <<"M">> \o otion
motion_ == <<"m">> \o otion
MOTION_ == <<"M", "O", "T", "I", "O", "N">>
detected_ == <<"d", "e", "t", "e", "c", "t", "e", "d">>
DETECTED_ == <<"D", "E", "T", "E", "C", "T", "E", "D">>
System_nominal == <<"S", "y", "s", "t", "e", "m", " ", "n", "o", "m", "i", "n", "a", "l">>

SepTexts == {<<>>, <<":", " ">>, <<"=">>, <<" ">>, <<"-">>}
NumTexts == {<<"3", "7", ".", "5">>, <<"4", "5">>, <<"3", "7", ".">>}
\* "deg" stands for the one character of the degree sign
UnitTexts == {<<>>, <<"deg", "C">>}
ReadingNames == {Temperature_, temperature_, TEMPERATURE_, Humidity_, HUMIDITY_}

\* a name, a separator or none, and a number; a name and no number or a
\* number without integer part; 'Temperature: <n>' with its unit
ReadingMsgs ==
    {n \o s \o <<"4", "5">> : n \in ReadingNames, s \in SepTexts}
    \cup {n \o <<":", " ">> \o d :
            n \in ReadingNames, d \in NumTexts \cup {<<>>, <<".", "5">>}}
    \cup {Temperature_ \o <<":", " ">> \o d \o u : d \in NumTexts, u \in UnitTexts}

MotionMsgs ==
    {n \o s \o d \o u :
        n \in {Motion_, motion_, MOTION_},
        s \in {<<" ">>, <<"=">>},
        d \in {<<>>, <<"1">>},
        u \in {<<>>, detected_, DETECTED_}}

OtherMsgs ==
    {System_nominal,
     <<"T", "E", "M", "P", "=", "2", "2">>,
     Temperature_ \o <<":", " ", "2", "2", ".", "0", ",", " ">>
         \o Humidity_ \o <<":", " ", "5", "5">>,
     Humidity_ \o <<"=", "7", "0", " ">> \o temperature_ \o <<" ", "4", "5", ".", "5">>,
     Motion_ \o <<":", " ", "0", " ">> \o motion_ \o <<" ">> \o detected_}

Msgs == ReadingMsgs \cup MotionMsgs \cup OtherMsgs

\* Messages whose metric name is followed by text that is not a number, or
\* by a number with something after it: with each text, whether a number
\* opens it and the float and the int that number is.
OddTails ==
    {[text |-> <<"N", "/", "A">>, number |-> FALSE, float |-> [m |-> 0, e |-> 0], int |-> 0],
     [text |-> <<".">>, number |-> FALSE, float |-> [m |-> 0, e |-> 0], int |-> 0],
     [text |-> <<".", "5">>, number |-> FALSE, float |-> [m |-> 0, e |-> 0], int |-> 0],
     [text |-> <<"-", "3">>, number |-> FALSE, float |-> [m |-> 0, e |-> 0], int |-> 0],
     [text |-> <<>>, number |-> FALSE, float |-> [m |-> 0, e |-> 0], int |-> 0],
     [text |-> <<"1", "2", "a", "b", "c">>, number |-> TRUE, float |-> [m |-> 12, e |-> 0], int |-> 12],
     [text |-> <<"7", ".", "5", ".", "2">>, number |-> TRUE, float |-> [m |-> 75, e |-> 1], int |-> 7],
     [text |-> <<"3", ".">>, number |-> TRUE, float |-> [m |-> 3, e |-> 0], int |-> 3],
     [text |-> <<"0", "0", "7">>, number |-> TRUE, float |-> [m |-> 7, e |-> 0], int |-> 7]}

OddNames ==
    {[text |-> Temperature_, family |-> "temperature"],
     [text |-> <<"h">> \o umidity, family |-> "humidity"],
     [text |-> Motion_, family |-> "motion"]}

OddForms ==
    {[msg |-> n.text \o sp \o t.text, family |-> n.family, number |-> t.number,
      float |-> t.float, int |-> t.int] :
        n \in OddNames, sp \in {<<":", " ">>, <<"=">>}, t \in OddTails}

OddMsgs == {f.msg : f \in OddForms}

(***************************************************************************)
(* The access gate.  A request is [path, method, cookie, header, data]:     *)
(* the path a sequence of characters, cookie the 'token' cookie, header    *)
(* the Authorization header, [scheme, token], and data the JSON body.  A   *)
(* token is [email, exp, key]: the user it names, the second it expires    *)
(* at and the key it was signed with; NoToken stands for an absent cookie  *)
(* or header.                                                              *)
(***************************************************************************)
Root == <<"/">>
Login == <<"/", "l", "o", "g", "i", "n">>
Logout == <<"/", "l", "o", "g", "o", "u", "t">>
Api == <<"/", "a", "p", "i">>
Underscore == <<"/", "_">>
Assets == <<"/", "a", "s", "s", "e", "t", "s">>
Static == <<"/", "s", "t", "a", "t", "i", "c">>
Favicon == <<"/", "f", "a", "v", "i", "c", "o", "n", ".", "i", "c", "o">>
Dashboard == <<"/", "d", "a", "s", "h", "b", "o", "a", "r", "d">>
ApiLogin == Api \o Login
ApiSignup == Api \o <<"/", "s", "i", "g", "n", "u", "p">>
ApiProfile == Api \o <<"/", "p", "r", "o", "f", "i", "l", "e">>
ApiUsers == Api \o <<"/", "u", "s", "e", "r", "s">>
DashboardSlash == Dashboard \o Root
DashboardUnderscore == Dashboard \o Underscore

\* str.startswith
StartsWith(s, w) == HasAt(s, 1, w)

TokenLife == 86400      \* seconds: datetime.timedelta(hours=24)

NoToken == [email |-> <<>>, exp |-> 0, key |-> "none"]

\* jwt.encode({'user_id': ..., 'email': email, 'exp': utcnow() + 24 h},
\*            SECRET_KEY, algorithm='HS256') at second t
jwt_encode(email, t) ==
    [email |-> email, exp |-> t + TokenLife, key |-> "SECRET_KEY"]

\* a decoder that checks the signature against another secret
jwt_decode_other_key(token) == token.key = "other" /\ token.exp > now

\* jwt.decode(token, SECRET_KEY, algorithms=["HS256"]) returns: the
\* signature is the server's and the token has not expired
jwt_decode_ok(token) == token.key = "SECRET_KEY" /\ token.exp > now

NoHeader == [scheme |-> "none", token |-> NoToken]

\* an answer: the handler it comes from, the status, the Location header,
\* 'success' and 'token' of the JSON body, the 'token' cookie it sets, and
\* body, the users whose name and email the JSON body shows under 'user' or
\* 'users' in the answers of the profile handlers
Redirect(where) ==
    [by |-> "redirect", status |-> 302, location |-> where,
     success |-> "none", token |-> NoToken, set_cookie |-> NoToken, body |-> {}]
Answer(by, status) ==
    [by |-> by, status |-> status, location |-> <<>>,
     success |-> "none", token |-> NoToken, set_cookie |-> NoToken, body |-> {}]
Proceed == Answer("None", 0)         \* a before_request hook returning None

\* integrated_app.py: the cookie, else 'Bearer <token>', else the second word
TokenIntegrated(req) ==
    IF req.cookie # NoToken THEN req.cookie
    ELSE IF req.header.scheme # "none" THEN req.header.token
    ELSE NoToken

\* app.py: the cookie, else 'Bearer <token>'
TokenApp(req) ==
    IF req.cookie # NoToken THEN req.cookie
    ELSE IF req.header.scheme = "Bearer" THEN req.header.token
    ELSE NoToken

\* if not token: redirect('/login'); jwt.decode raising: redirect('/login')
TokenGate(token) ==
    IF token = NoToken THEN Redirect(Login)
    ELSE IF jwt_decode_ok(token) THEN Proceed
    ELSE Redirect(Login)

skip_paths == <<Root, Login, Logout, Api, Underscore, Assets, Static, Favicon>>

\* integrated_app.py check_dashboard_auth
check_dashboard_auth_integrated(req) ==
    LET should_skip == \E i \in DOMAIN skip_paths : StartsWith(req.path, skip_paths[i])
    IN IF should_skip THEN Proceed
       ELSE IF StartsWith(req.path, Dashboard)
            THEN IF StartsWith(req.path, DashboardUnderscore) THEN Proceed
                 ELSE TokenGate(TokenIntegrated(req))
       ELSE Proceed

\* app.py check_dashboard_auth
check_dashboard_auth_app(req) ==
    IF \/ req.path = Root
       \/ req.path = Login
       \/ req.path = Logout
       \/ StartsWith(req.path, Api)
       \/ StartsWith(req.path, Underscore)
       \/ StartsWith(req.path, Assets)
       \/ StartsWith(req.path, Static)
    THEN Proceed
    ELSE IF StartsWith(req.path, Dashboard) THEN TokenGate(TokenApp(req))
    ELSE Proceed

(***************************************************************************)
(* Accounts: /api/signup and /api/login.  A user document is [name, email, *)
(* password, created_at, updated_at], the password stored as its hash and  *)
(* the two times in seconds.  The unique index makes the email a key and   *)
(* no handler changes it or deletes a user, so the email stands for the    *)
(* document's _id as well.                                                 *)
(***************************************************************************)
MinPassword == 6        \* len(password) < 6

\* str.strip()
Strip(s) ==
    LET kept == {i \in 1..Len(s) : s[i] \notin {" ", "\t", "\n"}}
    IN IF kept = {} THEN <<>>
       ELSE SubSeq(s, CHOOSE i \in kept : \A j \in kept : i <= j,
                      CHOOSE i \in kept : \A j \in kept : j <= i)

\* werkzeug.security
generate_password_hash(password) ==
    [method |-> "pbkdf2:sha256", of |-> password]

\* a check that accepts any password
check_password_any(pwhash, password) == pwhash.method = "pbkdf2:sha256"

check_password_hash(pwhash, password) ==
    pwhash = generate_password_hash(password)

NoData == [name |-> <<>>, email |-> <<>>, password |-> <<>>]

\* jsonify({... 'success': False}), status
Failure(by, status) == [Answer(by, status) EXCEPT !.success = "false"]

\* jsonify({... 'success': True, 'token': token}), set_cookie('token', token)
Success(by, status, token) ==
    [Answer(by, status) EXCEPT !.success = "true", !.token = token,
                               !.set_cookie = token]

\* users_collection.find_one({'email': email})
find_one(email) == {u \in users : u.email = email}

\* the user document signup inserts
NewUser(data) ==
    [name |-> Strip(data.name), email |-> Lower(Strip(data.email)),
     password |-> generate_password_hash(data.password),
     created_at |-> now, updated_at |-> now]

\* POST /api/signup
signup(data) ==
    LET email == Lower(Strip(data.email))
    IN IF data.name = <<>> \/ data.email = <<>> \/ data.password = <<>>
       THEN Failure("signup", 400)
       ELSE IF "@" \notin Range(email) \/ "." \notin Range(email)
       THEN Failure("signup", 400)
       ELSE IF Len(data.password) < MinPassword THEN Failure("signup", 400)
       ELSE IF find_one(email) # {} THEN Failure("signup", 409)
       ELSE Success("signup", 201, jwt_encode(email, now))

(***************************************************************************)
(* The search bar.  The value of the input is None until the user types,   *)
(* then a string; search holds it with the click counts of the two         *)
(* buttons, the stored filter, and the trigger and search_value of the     *)
(* last call of update_search_filter.                                      *)
(***************************************************************************)
Text(s) == [k |-> "str", s |-> s]
NoText == [k |-> "none", s |-> <<>>]

\* update_search_filter that stores the input as it was typed
update_search_filter_as_typed(button_id, search_value) ==
    IF button_id = "" THEN <<>>
    ELSE IF button_id = "reset-button" THEN <<>>
    ELSE IF button_id = "search-button" /\ search_value.s # <<>>
         THEN search_value.s
    ELSE <<>>

\* update_search_filter: button_id "" stands for a call nothing triggered
update_search_filter(button_id, search_value) ==
    IF button_id = "" THEN <<>>
    ELSE IF button_id = "reset-button" THEN <<>>
    ELSE IF button_id = "search-button" /\ search_value.s # <<>>
         THEN Lower(search_value.s)
    ELSE <<>>

\* the layout: dcc.Store(id='search-filter', data=''), the input without a
\* value and both buttons with n_clicks=0
NoSearch ==
    [input |-> NoText, filter |-> <<>>, search_clicks |-> 0, reset_clicks |-> 0,
     triggered |-> "", search_value |-> NoText]

\* the request threads of the server, and a thread not in signup
Threads == {1, 2}
NoSignup == [pc |-> "idle", data |-> NoData, status |-> 0]

\* signup up to and including find_one: the status it returns with, or 0
\* when it goes on to insert the user
signup_checked(data) ==
    IF signup(data).status = 201 THEN 0 ELSE signup(data).status

\* users_collection.insert_one(user) under the unique index on 'email':
\* DuplicateKeyError when a document with the email is there
insert_one(user) ==
    IF \E u \in users : u.email = user.email
    THEN [raised |-> "DuplicateKeyError", users |-> users]
    ELSE [raised |-> "none", users |-> users \cup {user}]

\* POST /api/login
login(data) ==
    LET email == Lower(Strip(data.email))
        found == find_one(email)
        user == CHOOSE u \in found : TRUE
    IN IF data.email = <<>> \/ data.password = <<>>
       THEN Failure("login", 400)
       ELSE IF found = {} THEN Failure("login", 401)
       ELSE IF ~ check_password_hash(user.password, data.password)
       THEN Failure("login", 401)
       ELSE Success("login", 200, jwt_encode(user.email, now))

(***************************************************************************)
(* The profile handlers behind token_required.  The Authorization header   *)
(* of a request is [scheme, token]: 'Bearer <token>', '<word> <token>'     *)
(* (scheme "Token"), or the bare token (scheme "Raw").                     *)
(***************************************************************************)
\* a string that is no JWT: jwt.decode raises InvalidTokenError on it
Garbled == [email |-> <<>>, exp |-> 0, key |-> "garbled"]

\* app.py: the Authorization header, 'Bearer ' removed if present
HeaderTokenApp(req) ==
    CASE req.header.scheme = "none" -> NoToken
      [] req.header.scheme \in {"Bearer", "Raw"} -> req.header.token
      [] OTHER -> Garbled

\* integrated_app.py: 'Bearer <token>', else the second word of the header,
\* else the 'token' cookie
HeaderTokenIntegrated(req) ==
    LET token == CASE req.header.scheme \in {"Bearer", "Token"} -> req.header.token
                   [] OTHER -> NoToken
    IN IF token # NoToken THEN token ELSE req.cookie

\* users_collection.find_one({'_id': ObjectId(data['user_id'])})
find_by_id(token) == {u \in users : u.email = token.email}

\* the decorator without the look-up of the user
token_required_no_lookup(req) ==
    LET token == IF server = "app" THEN HeaderTokenApp(req)
                 ELSE HeaderTokenIntegrated(req)
    IN IF token = NoToken
       THEN [answer |-> Failure("token_required", 401), current_user |-> {}]
       ELSE IF ~ jwt_decode_ok(token)
       THEN [answer |-> Failure("token_required", 401), current_user |-> {}]
       ELSE [answer |-> Proceed, current_user |-> find_by_id(token)]

\* the decorator token_required: the 401 it answers with, or Proceed and the
\* user it hands to the handler
token_required(req) ==
    LET token == IF server = "app" THEN HeaderTokenApp(req)
                 ELSE HeaderTokenIntegrated(req)
    IN IF token = NoToken
       THEN [answer |-> Failure("token_required", 401), current_user |-> {}]
       ELSE IF ~ jwt_decode_ok(token)
       THEN [answer |-> Failure("token_required", 401), current_user |-> {}]
       ELSE IF find_by_id(token) = {}
       THEN [answer |-> Failure("token_required", 401), current_user |-> {}]
       ELSE [answer |-> Proceed, current_user |-> find_by_id(token)]

\* what a JSON body shows of a user
View(u) == [name |-> u.name, email |-> u.email]

\* jsonify({'success': True, 'user': ...}) or ({'success': True, 'users': ...})
Shown(by, shown) ==
    [Answer(by, 200) EXCEPT !.success = "true", !.body = {View(u) : u \in shown}]

\* GET /api/profile
get_profile(current_user) == Shown("get_profile", current_user)

\* GET /api/users
get_users(current_user) == Shown("get_users", users)

\* update_data without the new password
update_data_name_only(data) ==
    [f \in {g \in {"name"} : data[g] # <<>>} |-> Strip(data.name)]

\* update_profile: update_data before 'updated_at' is added
update_data(data) ==
    [f \in {g \in {"name", "password"} : data[g] # <<>>} |->
        IF f = "name" THEN Strip(data.name)
        ELSE generate_password_hash(data.password)]

\* update_one({'_id': ...}, {'$set': set})
Set(u, set) == [f \in DOMAIN u |-> IF f \in DOMAIN set THEN set[f] ELSE u[f]]

\* update_profile: the status it answers with
update_status(data) ==
    IF data.password # <<>> /\ Len(data.password) < MinPassword THEN 400
    ELSE IF DOMAIN update_data(data) = {} THEN 400
    ELSE 200

\* the users collection after an update_profile that writes the name before
\* it looks at the password
update_one_name_first(current_user, data) ==
    LET named == IF data.name # <<>>
                 THEN [name |-> Strip(data.name), updated_at |-> now]
                 ELSE <<>>
        rest == IF update_status(data) = 200
                THEN update_data(data) @@ [updated_at |-> now]
                ELSE <<>>
    IN {IF u \in current_user THEN Set(Set(u, named), rest) ELSE u : u \in users}

\* the users collection after update_profile(current_user)
update_one(current_user, data) ==
    IF update_status(data) # 200 THEN users
    ELSE {IF u \in current_user
          THEN Set(u, update_data(data) @@ [updated_at |-> now])
          ELSE u : u \in users}

\* PUT /api/profile: the answer of update_profile(current_user)
update_profile(current_user, data) ==
    IF update_status(data) # 200 THEN Failure("update_profile", 400)
    ELSE Shown("update_profile",
               {u \in update_one(current_user, data) :
                   \E c \in current_user : c.email = u.email})

\* a cleared cookie: set_cookie('token', '', expires=0)
Cleared == [email |-> <<>>, exp |-> 0, key |-> "cleared"]

\* GET /logout: the page that clears the client's tokens
logout == [Answer("logout", 200) EXCEPT !.set_cookie = Cleared]

\* the route /dashboard of either script
dashboard_redirect(req) ==
    LET token == IF server = "app" THEN req.cookie ELSE TokenIntegrated(req)
    IN IF token # NoToken /\ jwt_decode_ok(token) THEN Redirect(DashboardSlash)
       ELSE Redirect(Login)

\* the Dash application: it answers every path below its base path
DashServes(path) == StartsWith(path, DashboardSlash)

\* the Flask application of the script: the before_request hook, then the
\* route of the path; dash tells whether Dash's routes are among them
FlaskApp(req, dash) ==
    LET gate == IF server = "app" THEN check_dashboard_auth_app(req)
                ELSE check_dashboard_auth_integrated(req)
    IN IF gate # Proceed THEN gate
       ELSE IF req.path = Root THEN Redirect(Login)
       ELSE IF req.path = Login THEN Answer("login_page", 200)
       ELSE IF req.path = Api THEN Answer("api_home", 200)
       ELSE IF req.path = ApiSignup /\ req.method = "POST" THEN signup(req.data)
       ELSE IF req.path = ApiLogin /\ req.method = "POST" THEN login(req.data)
       ELSE IF req.path = Logout THEN logout
       ELSE IF req.path \in {ApiProfile, ApiUsers}
            THEN LET auth == token_required(req)
                 IN IF \/ req.path = ApiProfile /\ req.method \notin {"GET", "PUT"}
                       \/ req.path = ApiUsers /\ req.method # "GET"
                    THEN Answer("method_not_allowed", 405)
                    ELSE IF auth.answer # Proceed THEN auth.answer
                    ELSE IF req.path = ApiUsers THEN get_users(auth.current_user)
                    ELSE IF req.method = "GET" THEN get_profile(auth.current_user)
                    ELSE update_profile(auth.current_user, req.data)
       ELSE IF req.path = Dashboard THEN dashboard_redirect(req)
       ELSE IF dash /\ DashServes(req.path) THEN Answer("dashboard", 200)
       ELSE Answer("not_found", 404)

\* init_app: DispatcherMiddleware(flask_app.wsgi_app, {'/dashboard': app.server})
\* hands the mount point and every path below it to the Dash application
DispatcherMiddleware(req) ==
    IF req.path = Dashboard \/ StartsWith(req.path, DashboardSlash)
    THEN Answer("dashboard", 200)
    ELSE FlaskApp(req, FALSE)

\* the server's answer to a request
Serve(req) ==
    IF server = "integrated_app" THEN FlaskApp(req, TRUE)
    ELSE IF mounted THEN DispatcherMiddleware(req)
    ELSE FlaskApp(req, FALSE)

\* a request without a body, and one with a JSON body
GetRequest(path, cookie, header) ==
    [path |-> path, method |-> "GET", cookie |-> cookie, header |-> header,
     data |-> NoData]
PostRequest(path, data) ==
    [path |-> path, method |-> "POST", cookie |-> NoToken, header |-> NoHeader,
     data |-> data]
PutRequest(path, cookie, header, data) ==
    [path |-> path, method |-> "PUT", cookie |-> cookie, header |-> header,
     data |-> data]

\* the answer to request req, sent at second t
Answered(req, ans, t) ==
    [request |-> req, at |-> t, by |-> ans.by, status |-> ans.status,
     location |-> ans.location, success |-> ans.success, token |-> ans.token,
     set_cookie |-> ans.set_cookie, body |-> ans.body]

NoRequest == GetRequest(<<>>, NoToken, NoHeader)
NoResponse == Answered(NoRequest, Answer("none", 0), 0)

Paths ==
    {Root, Login, Api, Dashboard, DashboardSlash,
     DashboardUnderscore \o <<"d", "a", "s", "h", "-", "l", "a", "y", "o", "u", "t">>,
     DashboardSlash \o <<"a", "s", "s", "e", "t", "s", "/", "s", ".", "c", "s", "s">>,
     <<"/", "o", "t", "h", "e", "r">>}
\* accounts and credentials of the clients
Ann == <<"a", "@", "b", ".", "c">>
AnnAsTyped == <<" ", "A", "@", "b", ".", "c">>
Bob == <<"b", "@", "b", ".", "c">>
NoAt == <<"a", "b", ".", "c">>
Secret1 == <<"s", "e", "c", "r", "e", "t">>
Secret2 == <<"S", "e", "c", "r", "e", "t">>
Short == <<"s", "e", "c">>
AnnName == <<"A", "n", "n", " ">>

\* a token of the server still running, one that has run out, and one signed
\* with another key
ForgedToken == [jwt_encode(Ann, 0) EXCEPT !.key = "other"]
Tokens ==
    {jwt_encode(Ann, 0),
     [jwt_encode(Ann, 0) EXCEPT !.exp = 0],
     ForgedToken}
Headers == {NoHeader} \cup [scheme : {"Bearer", "Token"}, token : Tokens]

(***************************************************************************)
(* Actions.                                                                *)
(***************************************************************************)
\* a simulator indexes a document stamped with the current time
IndexDoc ==
    /\ Cardinality(index) < MaxDocs
    /\ \E shape \in Shapes : index' = index \cup {[shape EXCEPT !.ts = now]}
    /\ pass' = NoPass
    /\ prev' = NoPass
    /\ UNCHANGED <<loki, es_client, now>>
    /\ UNCHANGED web
    /\ UNCHANGED running

\* a log shipper pushes a line to Loki
PushLog ==
    /\ Cardinality(loki) < MaxLogs
    /\ \E msg \in Msgs :
          loki' = loki \cup {[ts |-> now, message |-> msg, host |-> "client-vm-1"]}
    /\ pass' = NoPass
    /\ prev' = NoPass
    /\ UNCHANGED <<index, es_client, now>>
    /\ UNCHANGED web
    /\ UNCHANGED running

Tick ==
    /\ now < MaxTicks * TickSeconds
    /\ now' = now + TickSeconds
    /\ pass' = NoPass
    /\ prev' = NoPass
    /\ UNCHANGED <<index, loki, es_client>>
    /\ UNCHANGED web
    /\ UNCHANGED running

\* the clock advances while the dashboard keeps the passes it has rendered
TickKeeping ==
    /\ now < (MaxTicks + 1) * TickSeconds
    /\ now' = now + TickSeconds
    /\ UNCHANGED <<index, loki, es_client, pass, prev>>
    /\ UNCHANGED web
    /\ UNCHANGED running

\* what a query can hand back: its result, or an empty frame when the
\* request raised
Fetched(results) == results \cup {<<>>}

\* the interval timer fires: one pass of update_dashboard(n, '')
Pass(keep) ==
    /\ \E df \in Fetched(query_data(now)),
           table_logs \in Fetched(query_logs(now, 10)),
           section_logs \in Fetched(query_logs(now, 360)) :
          pass' = update_dashboard(df, now, table_logs, section_logs)
    /\ prev' = IF keep THEN pass ELSE NoPass
    /\ UNCHANGED <<index, loki, es_client, now>>
    /\ UNCHANGED web
    /\ UNCHANGED running

UpdateDashboard == Pass(FALSE)

\* a log shipper pushes a line whose reading is malformed
PushOdd ==
    /\ Cardinality(loki) < MaxLogs
    /\ \E msg \in OddMsgs :
          loki' = loki \cup {[ts |-> now, message |-> msg, host |-> "client-vm-1"]}
    /\ pass' = NoPass
    /\ prev' = NoPass
    /\ UNCHANGED <<index, es_client, now>>
    /\ UNCHANGED web
    /\ UNCHANGED running

(***************************************************************************)
(* Two passes whose calls of check_alerts overlap: the server runs each    *)
(* callback in a thread of its own.  A call is at one of the blocks of     *)
(* check_alerts; df is the frame it was given, recent_df and alerts are    *)
(* its locals.                                                             *)
(***************************************************************************)
\* the call whose 'alerts' list a pass appends to, were the list one
\* module-level list
OwnerShared(p) == 1

\* the call whose 'alerts' list pass p appends to: alerts = [] binds a local
Owner(p) == p

\* a pass enters check_alerts(df): alerts = [], current_time, recent_df
Enter(p) ==
    /\ calls[p].pc = "idle"
    /\ \E df \in query_data(now) :
          /\ df # <<>>
          /\ calls' =
                [[calls EXCEPT ![p] =
                    [pc |-> IF RecentDf(df, now) = <<>> THEN "returned"
                            ELSE "temperature",
                     given |-> df, df |-> df, at |-> now,
                     recent_df |-> RecentDf(df, now),
                     alerts |-> calls[p].alerts, raised |-> "none"]]
                 EXCEPT ![Owner(p)].alerts = <<>>]
    /\ UNCHANGED <<index, loki, es_client, now, pass, prev, rules, signups, search>>
    /\ UNCHANGED web

\* one block of check_alerts runs in pass p
Block(p, at, outcome, next) ==
    /\ calls[p].pc = at
    /\ calls' =
          IF outcome.raised # "none"
          THEN [calls EXCEPT ![p].pc = "raised", ![p].raised = outcome.raised]
          ELSE [[calls EXCEPT ![p].pc = next]
                EXCEPT ![Owner(p)].alerts = @ \o outcome.alerts]
    /\ UNCHANGED <<index, loki, es_client, now, pass, prev, rules, signups, search>>
    /\ UNCHANGED web

Temperature(p) ==
    LET c == calls[p]
    IN Block(p, "temperature",
             IF "sensor_type" \notin Columns(c.df)
             THEN Raised(<<>>, "sensor_type")
             ELSE TemperatureBlock(rules, c.recent_df, Columns(c.df)),
             "humidity")

Humidity(p) ==
    LET c == calls[p]
    IN Block(p, "humidity", HumidityBlock(rules, c.recent_df, Columns(c.df)),
             "system")

System(p) ==
    LET c == calls[p]
    IN Block(p, "system", SystemBlock(rules, c.recent_df, Columns(c.df)),
             "returned")

\* what the call of pass p gave its caller: the list it returns, or raised
Outcome(p) ==
    [alerts |-> calls[Owner(p)].alerts, raised |-> calls[p].raised]

\* time goes by while the passes run
Elapse ==
    /\ now < MaxTicks * TickSeconds
    /\ now' = now + TickSeconds
    /\ UNCHANGED <<index, loki, es_client, pass, prev>>
    /\ UNCHANGED web
    /\ UNCHANGED running

\* a pass whose predecessor is remembered in prev
UpdateAgain == Pass(TRUE)

Init ==
    /\ index = {}
    /\ loki = {}
    /\ es_client \in {"client", "None"}
    /\ now = 0
    /\ pass = NoPass
    /\ prev = NoPass
    /\ server = "integrated_app"
    /\ mounted = TRUE
    /\ response = NoResponse
    /\ users = {}
    /\ cookies = NoToken
    /\ rules = ALERT_RULES
    /\ calls = [p \in Passes |-> NoCall]
    /\ signups = [r \in Threads |-> NoSignup]
    /\ search = NoSearch

Next == IndexDoc \/ Tick \/ UpdateDashboard

Spec == Init /\ [][Next]_vars

\* The dashboard polling an index that no longer changes: passes follow one
\* another on the same documents while the clock advances.
RepeatShapes ==
    {SensorDoc("temperature", "value", Num(450)),
     SensorDoc("temperature", "value", Num(349)),
     SensorDoc("humidity", "value", Num(850)),
     SysDoc(Num(900), Absent, Num(950)),
     SysDoc(Num(599), Num(599), Num(799)),
     LogDoc}

InitRepeat ==
    /\ index \in {S \in SUBSET {[shape EXCEPT !.ts = ts] :
                                   shape \in RepeatShapes, ts \in {0, TickSeconds}} :
                     Cardinality(S) <= MaxDocs}
    /\ loki = {}
    /\ es_client = "client"
    /\ now = TickSeconds
    /\ pass = NoPass
    /\ prev = NoPass
    /\ server = "integrated_app"
    /\ mounted = TRUE
    /\ response = NoResponse
    /\ users = {}
    /\ cookies = NoToken
    /\ rules = ALERT_RULES
    /\ calls = [p \in Passes |-> NoCall]
    /\ signups = [r \in Threads |-> NoSignup]
    /\ search = NoSearch

NextRepeat == TickKeeping \/ UpdateAgain

SpecRepeat == InitRepeat /\ [][NextRepeat]_vars

\* a client sends a request and the server answers it
Request ==
    /\ \E path \in Paths, cookie \in Tokens \cup {NoToken}, header \in Headers :
          LET req == GetRequest(path, cookie, header)
          IN response' = Answered(req, Serve(req), now)
    /\ UNCHANGED <<index, loki, es_client, now, pass, prev, server, mounted>>
    /\ UNCHANGED <<users, cookies>>
    /\ UNCHANGED running

SignupData ==
    {[name |-> AnnName, email |-> Ann, password |-> Secret1],
     [name |-> AnnName, email |-> AnnAsTyped, password |-> Secret2],
     [name |-> AnnName, email |-> Bob, password |-> Secret1],
     [name |-> <<>>, email |-> Bob, password |-> Secret1],
     [name |-> AnnName, email |-> NoAt, password |-> Secret1],
     [name |-> AnnName, email |-> Bob, password |-> Short]}
LoginData ==
    [name : {<<>>}, email : {Ann, AnnAsTyped, Bob, <<>>},
     password : {Secret1, Secret2, <<>>}]

\* a visitor registers: POST /api/signup
Signup ==
    /\ \E data \in SignupData :
          LET req == PostRequest(ApiSignup, data)
              ans == Serve(req)
          IN /\ ans.status = 201 => Cardinality(users) < MaxUsers
             /\ response' = Answered(req, ans, now)
             /\ users' = IF ans.status = 201 THEN users \cup {NewUser(data)}
                         ELSE users
    /\ UNCHANGED <<index, loki, es_client, now, pass, prev, server, mounted>>
    /\ UNCHANGED cookies
    /\ UNCHANGED running

\* test_auth.py, Test 2: POST /api/login; the client keeps the token of a
\* successful answer
LoginRequest ==
    /\ \E data \in LoginData :
          LET req == PostRequest(ApiLogin, data)
              ans == Serve(req)
          IN /\ response' = Answered(req, ans, now)
             /\ cookies' = IF ans.success = "true" THEN ans.token ELSE cookies
    /\ UNCHANGED <<index, loki, es_client, now, pass, prev, server, mounted>>
    /\ UNCHANGED users
    /\ UNCHANGED running

\* test_auth.py, Test 3: GET /dashboard/ with cookies = {'token': token}
Visit ==
    /\ cookies # NoToken
    /\ LET req == GetRequest(DashboardSlash, cookies, NoHeader)
       IN response' = Answered(req, Serve(req), now)
    /\ UNCHANGED <<index, loki, es_client, now, pass, prev, server, mounted>>
    /\ UNCHANGED <<users, cookies>>
    /\ UNCHANGED running

\* the ways a client presents token t: as the cookie, or in the header as
\* 'Bearer <t>', as '<word> <t>' or bare
Presented(t) ==
    {[cookie |-> t, header |-> NoHeader]}
    \cup {[cookie |-> NoToken, header |-> [scheme |-> sch, token |-> t]] :
             sch \in {"Bearer", "Token", "Raw"}}

NewName == <<"A", ".", "B", ".">>
ProfileData ==
    [name : {<<>>, NewName}, email : {<<>>},
     password : {<<>>, Short, Secret1, Secret2}]

\* a client asks for its profile, or with a Bearer header for the list of
\* users: with the token it got at login, with one of Tokens or with none
GetProfile ==
    /\ \E path \in {ApiProfile, ApiUsers}, t \in Tokens \cup {cookies, NoToken} :
          \E by \in Presented(t) :
             LET req == GetRequest(path, by.cookie, by.header)
             IN /\ path = ApiUsers => by.header.scheme = "Bearer"
                /\ response' = Answered(req, Serve(req), now)
    /\ UNCHANGED <<index, loki, es_client, now, pass, prev, server, mounted>>
    /\ UNCHANGED <<users, cookies>>
    /\ UNCHANGED running

\* a client sends PUT /api/profile with 'Authorization: Bearer <token>'
UpdateProfile ==
    /\ \E data \in ProfileData, t \in {cookies, ForgedToken, NoToken} :
          LET req == PutRequest(ApiProfile, NoToken,
                                [scheme |-> "Bearer", token |-> t], data)
              auth == token_required(req)
          IN /\ response' = Answered(req, Serve(req), now)
             /\ users' = IF auth.answer = Proceed
                         THEN update_one(auth.current_user, data)
                         ELSE users
    /\ UNCHANGED <<index, loki, es_client, now, pass, prev, server, mounted>>
    /\ UNCHANGED cookies
    /\ UNCHANGED running

\* a /logout that removes the user of the token from the users collection
LogoutDropping ==
    /\ cookies # NoToken
    /\ LET req == GetRequest(Logout, cookies, NoHeader)
           ans == Serve(req)
       IN /\ response' = Answered(req, ans, now)
          /\ cookies' = IF ans.set_cookie = Cleared THEN NoToken ELSE cookies
          /\ users' = users \ find_by_id(cookies)
    /\ UNCHANGED <<index, loki, es_client, now, pass, prev, server, mounted>>
    /\ UNCHANGED running

\* a browser opens /logout: the page and the cleared cookie make it drop the
\* token it holds
LogoutRequest ==
    /\ cookies # NoToken
    /\ LET req == GetRequest(Logout, cookies, NoHeader)
           ans == Serve(req)
       IN /\ response' = Answered(req, ans, now)
          /\ cookies' = IF ans.set_cookie = Cleared THEN NoToken ELSE cookies
    /\ UNCHANGED <<index, loki, es_client, now, pass, prev, server, mounted>>
    /\ UNCHANGED users
    /\ UNCHANGED running

\* what the user types into the search input
SearchInputs ==
    {Text(<<>>), Text(Temperature_), Text(TEMPERATURE_), Text(motion_),
     Text(<<" ">>), Text(System_nominal)}

MaxClicks == 3

\* the user edits the search input
TypeSearch ==
    /\ \E value \in SearchInputs :
          /\ value # search.input
          /\ search' = [search EXCEPT !.input = value]
    /\ UNCHANGED <<index, loki, es_client, now, pass, prev, rules, calls, signups>>
    /\ UNCHANGED web

\* a click on button_id: the callback runs with the input's value as State
Click(button_id) ==
    /\ search.search_clicks + search.reset_clicks < MaxClicks
    /\ search' =
          [search EXCEPT
             !.search_clicks = IF button_id = "search-button" THEN @ + 1 ELSE @,
             !.reset_clicks = IF button_id = "reset-button" THEN @ + 1 ELSE @,
             !.triggered = button_id,
             !.search_value = search.input,
             !.filter = update_search_filter(button_id, search.input)]
    /\ UNCHANGED <<index, loki, es_client, now, pass, prev, rules, calls, signups>>
    /\ UNCHANGED web

ClickSearch == Click("search-button")
ClickReset == Click("reset-button")

\* two visitors register at the same time
RaceData ==
    {[name |-> AnnName, email |-> Ann, password |-> Secret1],
     [name |-> NewName, email |-> AnnAsTyped, password |-> Secret2],
     [name |-> AnnName, email |-> Bob, password |-> Secret1],
     [name |-> AnnName, email |-> Bob, password |-> Short]}

\* thread r runs signup from get_json to find_one
SignupCheck(r) ==
    /\ signups[r].pc = "idle"
    /\ \E data \in RaceData :
          signups' = [signups EXCEPT ![r] =
                        [pc |-> IF signup_checked(data) = 0 THEN "checked"
                                ELSE "done",
                         data |-> data, status |-> signup_checked(data)]]
    /\ UNCHANGED <<index, loki, es_client, now, pass, prev, rules, calls, search>>
    /\ UNCHANGED web

\* thread r runs signup from insert_one to its return: 201, or 500 from the
\* except clause when insert_one raised
SignupInsert(r) ==
    /\ signups[r].pc = "checked"
    /\ LET result == insert_one(NewUser(signups[r].data))
       IN /\ users' = result.users
          /\ signups' = [signups EXCEPT ![r].pc = "done",
                                        ![r].status = IF result.raised = "none"
                                                      THEN 201 ELSE 500]
    /\ UNCHANGED <<index, loki, es_client, now, pass, prev, rules, calls, search>>
    /\ UNCHANGED <<server, mounted, response, cookies>>

\* half the life of a token goes by
Later ==
    /\ now < MaxTicks * (TokenLife \div 2)
    /\ now' = now + TokenLife \div 2
    /\ UNCHANGED <<index, loki, es_client, pass, prev>>
    /\ UNCHANGED web
    /\ UNCHANGED running

\* The web server started from either script; app.py runs with the dashboard
\* mounted, or without it when init_app failed.
InitAuth ==
    /\ index = {}
    /\ loki = {}
    /\ es_client = "client"
    /\ now = 0
    /\ pass = NoPass
    /\ prev = NoPass
    /\ server \in {"integrated_app", "app"}
    /\ mounted \in IF server = "app" THEN BOOLEAN ELSE {TRUE}
    /\ response = NoResponse
    /\ users = {}
    /\ cookies = NoToken
    /\ rules = ALERT_RULES
    /\ calls = [p \in Passes |-> NoCall]
    /\ signups = [r \in Threads |-> NoSignup]
    /\ search = NoSearch

\* Both passes run check_alerts on the frames they fetched, their blocks
\* interleaved in every order.
OverlapShapes ==
    {SensorDoc("temperature", "value", Num(450)),
     SensorDoc("humidity", "value", Num(850)),
     SensorDoc("humidity", "value", Str),
     SysDoc(Num(900), Absent, Num(950)),
     LogDoc}

InitOverlap ==
    /\ index \in {S \in SUBSET {[shape EXCEPT !.ts = ts] :
                                   shape \in OverlapShapes, ts \in {0, TickSeconds}} :
                     Cardinality(S) <= MaxDocs}
    /\ loki = {}
    /\ es_client = "client"
    /\ now = TickSeconds
    /\ pass = NoPass
    /\ prev = NoPass
    /\ server = "integrated_app"
    /\ mounted = TRUE
    /\ response = NoResponse
    /\ users = {}
    /\ cookies = NoToken
    /\ rules = ALERT_RULES
    /\ calls = [p \in Passes |-> NoCall]
    /\ signups = [r \in Threads |-> NoSignup]
    /\ search = NoSearch

NextOverlap ==
    \/ Elapse
    \/ \E p \in Passes : Enter(p) \/ Temperature(p) \/ Humidity(p) \/ System(p)

SpecOverlap == InitOverlap /\ [][NextOverlap]_vars

NextAuth == Request

SpecAuth == InitAuth /\ [][NextAuth]_vars

\* Visitors sign up, the client of test_auth.py logs in and asks for the
\* dashboard with the token it got, while the tokens age.
NextLogin == Signup \/ LoginRequest \/ Visit \/ Later

SpecLogin == InitAuth /\ [][NextLogin]_vars

\* The server starts on a users collection that holds Bob, who never logs
\* in, and that holds Ann or does not.  Ann logs in, reads and updates her
\* profile and logs out, while other clients present tokens that are stale,
\* forged or none.
Secret3 == <<"s", "e", "c", "r", "e", "t", "3">>
InitProfile ==
    /\ index = {}
    /\ loki = {}
    /\ es_client = "client"
    /\ now = 0
    /\ pass = NoPass
    /\ prev = NoPass
    /\ server \in {"integrated_app", "app"}
    /\ mounted = TRUE
    /\ response = NoResponse
    /\ users \in
          {{NewUser([name |-> Bob, email |-> Bob, password |-> Secret3])} \cup anns :
              anns \in SUBSET {NewUser([name |-> AnnName, email |-> Ann,
                                        password |-> Secret1])}}
    /\ cookies = NoToken
    /\ rules = ALERT_RULES
    /\ calls = [p \in Passes |-> NoCall]
    /\ signups = [r \in Threads |-> NoSignup]
    /\ search = NoSearch

\* Two signup requests served by two threads of the server, their steps
\* interleaved in every order.
NextRace == \E r \in Threads : SignupCheck(r) \/ SignupInsert(r)

SpecRace == InitAuth /\ [][NextRace]_vars

\* A user types into the search input and clicks the two buttons.
NextSearch == TypeSearch \/ ClickSearch \/ ClickReset

SpecSearch == InitAuth /\ [][NextSearch]_vars

NextProfile == LoginRequest \/ GetProfile \/ UpdateProfile \/ LogoutRequest \/ Later

SpecProfile == InitProfile /\ [][NextProfile]_vars

\* The log shippers pushing lines while the index is empty: the Loki section
\* and the Loki branch of the alerts table work from the lines alone.
NextExtract == PushLog \/ UpdateDashboard

SpecExtract == Init /\ [][NextExtract]_vars

\* The same with lines whose readings are malformed.
NextOdd == PushOdd \/ UpdateDashboard

SpecOdd == Init /\ [][NextOdd]_vars

(***************************************************************************)
(* What a pass evaluated, read off its frame: used to state the claims.    *)
(***************************************************************************)
Metrics == <<"temperature", "humidity", "cpu", "memory", "disk">>
MetricSet == Range(Metrics)
Pos(m) == CHOOSE i \in DOMAIN Metrics : Metrics[i] = m

Category(m) == IF m \in {"cpu", "memory", "disk"} THEN "system_health" ELSE m
SysField(m) == CASE m = "cpu" -> "cpu_percent"
                 [] m = "memory" -> "memory_percent"
                 [] m = "disk" -> "disk_percent"
Critical(m) == ALERT_RULES[m].critical
Lowest(m) == IF m \in {"temperature", "humidity"} THEN ALERT_RULES[m].high
             ELSE ALERT_RULES[m].warning

\* check_alerts ran in pass p
Called(p) == p.check.raised # "not called"

\* the records of category c inside the alert window of pass p
WindowOf(p, c) == OfType(RecentDf(p.df, p.at), c)

\* the value pass p read for metric m: NoneVal when it read none
Evaluated(p, m) ==
    LET data == WindowOf(p, Category(m))
        cols == Columns(p.df)
    IN IF data = <<>> THEN NoneVal
       ELSE IF m \in {"temperature", "humidity"} THEN LatestReading(data, cols, m)
       ELSE Get(iloc0(data), SysField(m), cols, Num(0))

\* the check of metric m was executed in pass p
Reached(p, m) ==
    /\ Called(p)
    /\ p.check.raised # "sensor_type"
    /\ p.check.raised = "none" \/ Pos(p.check.raised) >= Pos(m)

\* the alerts for metric m in a list
AlertsFor(alerts, m) == SelectSeq(alerts, LAMBDA a : a.metric = m)

\* C1: when check_alerts evaluates a numeric value v for a metric, v strictly
\* below the metric's lower threshold gives no alert for the metric, and v at
\* or above its critical threshold gives exactly one alert, CRITICAL.
C1_Thresholds ==
    \A m \in MetricSet :
        LET v == Evaluated(pass, m)
            as == AlertsFor(pass.check.alerts, m)
        IN (Reached(pass, m) /\ v.k = "num") =>
              /\ v.v < Lowest(m) => as = <<>>
              /\ v.v >= Critical(m) =>
                    as = <<Alert(m, "CRITICAL", v)>>
              /\ pass.status = "ok" =>
                    AlertsFor(pass.banner, m) = as

\* a pass that read a temperature below 35 and a CPU at 90 and showed the
\* CPU alert alone
C1_Witness ==
    /\ pass.status = "ok"
    /\ Evaluated(pass, "temperature") = Num(349)
    /\ Evaluated(pass, "cpu") = Num(900)
    /\ AlertsFor(pass.banner, "temperature") = <<>>
    /\ AlertsFor(pass.banner, "cpu") = <<Alert("cpu", "CRITICAL", Num(900))>>

\* what the threshold rule of metric m gives for value v
Expected(m, v) == ThresholdCheck(v, m, Critical(m), Lowest(m)).alerts

\* check_alerts got past recent_df['sensor_type'] in pass p
Entered(p) == Called(p) /\ p.check.raised # "sensor_type"

\* the temperature records of the alert window of pass p are two, one reading
\* exactly 45 and one 44.9
TwoTemperatures(p) ==
    LET w == WindowOf(p, "temperature")
    IN /\ Entered(p)
       /\ "temperature" \notin Columns(p.df)
       /\ Len(w) = 2
       /\ {w[1].value, w[2].value} = {Num(450), Num(449)}

\* C2 as stated: evaluating a window with two temperature records, 45 and
\* 44.9, yields two alerts, one CRITICAL for 45 and one WARNING for 44.9.
C2_TwoAlerts ==
    LET as == AlertsFor(pass.check.alerts, "temperature")
    IN TwoTemperatures(pass) =>
          /\ Len(as) = 2
          /\ Range(as) = {Alert("temperature", "CRITICAL", Num(450)),
                          Alert("temperature", "WARNING", Num(449))}

\* the frame of pass p is the two records of the boundary scenario and
\* nothing else, both inside the alert window
BoundaryFrame(p) ==
    /\ TwoTemperatures(p)
    /\ Len(p.df) = 2
    /\ RecentDf(p.df, p.at) = p.df

\* C2, amended: on a window that consists of two temperature records reading
\* 45 and 44.9, both at most 30 seconds old, check_alerts returns one alert,
\* for the first (most recent) record alone: CRITICAL when it is the 45,
\* WARNING when it is the 44.9.  generate_alerts_table lists both records in
\* the order of the frame, CRITICAL for 45 and WARNING for 44.9.
C2_Boundary ==
    LET Severity(r) == IF r.value = Num(450) THEN "CRITICAL" ELSE "WARNING"
        df == pass.df
    IN BoundaryFrame(pass) =>
          /\ pass.check =
                Returned(<<Alert("temperature", Severity(df[1]), df[1].value)>>)
          /\ pass.status = "ok"
          /\ pass.banner = pass.check.alerts
          /\ pass.table =
                [i \in 1..2 |-> TableRow("Temperature", Severity(df[i]),
                                         Tenths(df[i].value.v))]

\* the 44.9 is the more recent record: one WARNING in the banner, both rows
\* in the table
C2_Witness ==
    /\ BoundaryFrame(pass)
    /\ pass.df[1].value = Num(449)
    /\ pass.df[1].ts > pass.df[2].ts
    /\ pass.banner = <<Alert("temperature", "WARNING", Num(449))>>
    /\ Len(pass.table) = 2
    /\ pass.table[2].severity = "CRITICAL"

\* the alerts pass p owes the presenter: for every metric whose value is a
\* number, what the metric's rule gives
Owed(p, m) ==
    IF Evaluated(p, m).k = "num" THEN Expected(m, Evaluated(p, m)) ELSE <<>>

\* C4 as stated: a missing or non-numeric value skips only its metric's
\* check; check_alerts does not raise, and the alerts of the other metrics
\* are produced and reach the presenter.
C4_SkipsMalformed ==
    (Called(pass) /\ "sensor_type" \in Columns(pass.df)) =>
        /\ pass.check.raised = "none"
        /\ pass.status = "ok"
        /\ \A m \in MetricSet : AlertsFor(pass.banner, m) = Owed(pass, m)

\* no value of the frame is a string
WellFormed(df) ==
    \A i \in 1..Len(df) : \A f \in ReadingFields : df[i][f] # Str

\* C5 as stated: a category without a record in the window (a window of log
\* records only included) gives no alert for its metrics and no failure;
\* the alerts of the categories that are present are still produced.
C5_AbsentCategory ==
    (Called(pass) /\ WellFormed(pass.df)) =>
        /\ pass.check.raised = "none"
        /\ pass.status = "ok"
        /\ \A m \in MetricSet :
              /\ WindowOf(pass, Category(m)) = <<>> =>
                    AlertsFor(pass.banner, m) = <<>>
              /\ AlertsFor(pass.banner, m) = Owed(pass, m)

\* the documents of category c the index holds inside the alert window of
\* pass p, and the newest of them
InWindow(p, c) ==
    {d \in index : /\ d.sensor_type = c
                   /\ d.ts >= p.at - AlertWindow
                   /\ d.ts <= p.at}
Newest(S) == {d \in S : d.ts = MaxTs(S)}

\* what check_alerts reads for metric m from record d of a frame
ReadingOf(d, cols, m) ==
    IF m \in {"temperature", "humidity"} THEN LatestReading(<<d>>, cols, m)
    ELSE Get(d, SysField(m), cols, Num(0))

\* C6: for each category, check_alerts evaluates the record of greatest
\* timestamp among the category's records inside the window, in whatever
\* order the records were indexed: the alerts of each metric are those of
\* the reading of a newest record.
C6_MostRecent ==
    \A m \in MetricSet :
        LET S == InWindow(pass, Category(m))
        IN (Entered(pass) /\ S # {}) =>
              \E d \in Newest(S) :
                 /\ iloc0(WindowOf(pass, Category(m))) = d
                 /\ Reached(pass, m) =>
                       AlertsFor(pass.check.alerts, m)
                          = Expected(m, ReadingOf(d, Columns(pass.df), m))

\* an older temperature of 45 and a newer one of 34.9 in the window: the
\* newer is evaluated and there is no temperature alert
C6_Witness ==
    /\ pass.status = "ok"
    /\ \E old, new \in InWindow(pass, "temperature") :
          /\ old.ts < new.ts
          /\ old.value = Num(450)
          /\ new.value = Num(349)
    /\ Evaluated(pass, "temperature") = Num(349)
    /\ AlertsFor(pass.banner, "temperature") = <<>>

\* C7: when the system_health record check_alerts evaluates lacks
\* memory_percent, the memory check does not raise and adds no memory alert,
\* and the record's cpu_percent, when a number at or above the cpu warning
\* threshold, still gives its CPU alert.
C7_MissingMemory ==
    LET w == WindowOf(pass, "system_health")
        cpu == iloc0(w).cpu_percent
    IN (Entered(pass) /\ Reached(pass, "cpu") /\ w # <<>>
            /\ iloc0(w).memory_percent = Absent) =>
          /\ pass.check.raised # "memory"
          /\ AlertsFor(pass.check.alerts, "memory") = <<>>
          /\ (cpu.k = "num" /\ cpu.v >= ALERT_RULES.cpu.warning) =>
                /\ Len(AlertsFor(pass.check.alerts, "cpu")) = 1
                /\ AlertsFor(pass.check.alerts, "cpu")[1].value = cpu.v
          /\ pass.status = "ok" =>
                /\ AlertsFor(pass.banner, "memory") = <<>>
                /\ AlertsFor(pass.banner, "cpu") = AlertsFor(pass.check.alerts, "cpu")

\* the newest system_health record has no memory_percent while an older one
\* has (the cell is NaN); its CPU at 90 is alerted, memory is not
C7_Witness ==
    LET w == WindowOf(pass, "system_health")
    IN /\ pass.status = "ok"
       /\ Len(w) = 2
       /\ iloc0(w).memory_percent = Absent
       /\ "memory_percent" \in Columns(pass.df)
       /\ AlertsFor(pass.banner, "cpu") = <<Alert("cpu", "CRITICAL", Num(900))>>
       /\ AlertsFor(pass.banner, "memory") = <<>>

\* the two passes ran check_alerts on the identical frame
SameFrame == Called(prev) /\ Called(pass) /\ prev.df = pass.df

NameOf(family) ==
    CASE family = "temperature" -> temperature_
      [] family = "humidity" -> <<"h">> \o umidity
      [] family = "motion" -> motion_

\* the reading C9 describes: the name in any letter case, then zero or more
\* colons, equals signs or whitespace, then a digit opening the literal
Described(msg, family) ==
    \E i \in 1..Len(msg) :
        /\ HasAt(Lower(msg), i, NameOf(family))
        /\ LET b == RunEnd(msg, i + Len(NameOf(family)), Sep)
           IN b <= Len(msg) /\ msg[b] \in Digit

\* the rows of the Loki section of pass p that C9 describes as a reading
DescribedRows(p, family) ==
    {i \in 1..Len(p.logs) : Described(p.logs[i].message, family)}

\* C9 as stated: the extractor recognises a temperature or humidity reading
\* in exactly the messages that hold the name in any letter case, an
\* optional separator and a number: one fragment for each such row.
C9_Recognises ==
    pass.section.status = "ok" =>
        /\ Len(pass.section.temp_data)
              = Cardinality(DescribedRows(pass, "temperature"))
        /\ Len(pass.section.humidity_data)
              = Cardinality(DescribedRows(pass, "humidity"))

\* the literals of the messages, with the numbers they denote
Literals ==
    {[text |-> <<"3", "7", ".", "5">>, value |-> [m |-> 375, e |-> 1]],
     [text |-> <<"4", "5">>, value |-> [m |-> 45, e |-> 0]],
     [text |-> <<"3", "7", ".">>, value |-> [m |-> 37, e |-> 0]]}

\* the messages 'Temperature: <n>', a unit following or not
TemperatureForms ==
    {[msg |-> Temperature_ \o <<":", " ">> \o n.text \o u, value |-> n.value] :
        n \in Literals, u \in UnitTexts}

\* the message mentions none of the three metric names
MentionsNone(msg) ==
    \A family \in {"temperature", "humidity", "motion"} :
        ~Contains(Lower(msg), NameOf(family))

Unauthenticated ==
    /\ response # NoResponse
    /\ response.request.cookie = NoToken
    /\ response.request.header = NoHeader
    /\ StartsWith(response.request.path, DashboardSlash)

\* C3 as stated: an unauthenticated request for a path under /dashboard/ is
\* answered by a 302 redirect to /login and does not reach the dashboard,
\* whichever script the server was started from.
C3_Redirects ==
    Unauthenticated =>
        /\ response.status = 302
        /\ response.location = Login
        /\ response.by # "dashboard"

\* the messages that hold a temperature and a humidity reading, with the
\* numbers they denote
BothForms ==
    {[msg |-> Temperature_ \o <<":", " ", "2", "2", ".", "0", ",", " ">>
                 \o Humidity_ \o <<":", " ", "5", "5">>,
      temperature |-> [m |-> 22, e |-> 0], humidity |-> [m |-> 55, e |-> 0]],
     [msg |-> Humidity_ \o <<"=", "7", "0", " ">>
                 \o temperature_ \o <<" ", "4", "5", ".", "5">>,
      temperature |-> [m |-> 455, e |-> 1], humidity |-> [m |-> 70, e |-> 0]]}

\* C11: a row holding both a temperature and a humidity reading gives
\* exactly two fragments, one per metric with the metric's own value, and no
\* motion fragment (the other rows of the section mentioning no metric name).
C11_Independent ==
    \A i \in 1..Len(pass.logs) :
        LET row == pass.logs[i]
            sec == pass.section
            alone == \A j \in 1..Len(pass.logs) :
                        j # i => MentionsNone(pass.logs[j].message)
        IN (sec.status = "ok" /\ alone) =>
              \A f \in BothForms :
                 row.message = f.msg =>
                    /\ sec.temp_data = <<Fragment(row, f.temperature)>>
                    /\ sec.humidity_data = <<Fragment(row, f.humidity)>>
                    /\ sec.motion_data = <<>>

\* 'Temperature: 22.0, Humidity: 55' was extracted as 22 and 55
C11_Witness ==
    /\ pass.section.status = "ok"
    /\ Len(pass.logs) >= 1
    /\ pass.logs[1].message =
          Temperature_ \o <<":", " ", "2", "2", ".", "0", ",", " ">>
             \o Humidity_ \o <<":", " ", "5", "5">>
    /\ Len(pass.section.temp_data) = 1
    /\ pass.section.temp_data[1].value = [m |-> 22, e |-> 0]
    /\ Len(pass.section.humidity_data) = 1
    /\ pass.section.humidity_data[1].value = [m |-> 55, e |-> 0]
    /\ pass.section.motion_data = <<>>

\* the pass had no Elasticsearch data: the client is missing, or the fetch
\* failed or found nothing (query_data returns an empty frame for both)
FetchFailed(p) == p.status \in {"no_data", "no_results"}

\* C12: a pass whose Elasticsearch fetch fails or returns nothing ends
\* without raising and shows no alert entry, neither in the banner nor in the
\* alerts table.
C12_NoAlerts ==
    FetchFailed(pass) => (pass.banner = <<>> /\ pass.table = <<>>)

\* C13: in one call of check_alerts a metric contributes at most one alert,
\* so never a WARNING and a CRITICAL together.
C13_OnePerMetric ==
    \A m \in MetricSet :
        LET as == AlertsFor(pass.check.alerts, m)
        IN /\ Len(as) <= 1
           /\ ~ \E i, j \in 1..Len(as) :
                   as[i].severity = "WARNING" /\ as[j].severity = "CRITICAL"
           /\ Len(AlertsFor(pass.banner, m)) <= 1

\* two temperature records at or above the critical threshold in one window
\* gave one temperature alert
C13_Witness ==
    /\ pass.status = "ok"
    /\ Len(WindowOf(pass, "temperature")) = 2
    /\ \A i \in 1..2 :
          LET v == ReadingOf(WindowOf(pass, "temperature")[i],
                             Columns(pass.df), "temperature")
          IN v.k = "num" /\ v.v >= Critical("temperature")
    /\ Len(AlertsFor(pass.check.alerts, "temperature")) = 1
    /\ AlertsFor(pass.check.alerts, "temperature")[1].severity = "CRITICAL"

(***************************************************************************)
(* One system_health record with every combination of cpu, memory and disk *)
(* values: below the lower threshold, on it, just under the critical one,  *)
(* on it, missing, and not a number.                                       *)
(***************************************************************************)
SysMetrics == {"cpu", "memory", "disk"}

SysValues(m) ==
    {Num(Lowest(m) - 1), Num(Lowest(m)), Num(Critical(m) - 1),
     Num(Critical(m)), Absent, Str}

InitSystem ==
    /\ \E c \in SysValues("cpu"), m \in SysValues("memory"),
          d \in SysValues("disk") :
          index = {[SysDoc(c, m, d) EXCEPT !.ts = 0]}
    /\ loki = {}
    /\ es_client = "client"
    /\ now = 0
    /\ pass = NoPass
    /\ prev = NoPass
    /\ server = "integrated_app"
    /\ mounted = TRUE
    /\ response = NoResponse
    /\ users = {}
    /\ cookies = NoToken
    /\ rules = ALERT_RULES
    /\ calls = [p \in Passes |-> NoCall]
    /\ signups = [r \in Threads |-> NoSignup]
    /\ search = NoSearch

NextSystem == UpdateDashboard

SpecSystem == InitSystem /\ [][NextSystem]_vars

\* C14: the cpu, memory and disk checks of one system_health record are
\* independent: whatever the three values are, check_alerts returns, for
\* each component, exactly what the component's own rule gives for the
\* component's own value.
C14_Independent ==
    (Called(pass) /\ WindowOf(pass, "system_health") # <<>>) =>
        /\ pass.check.raised = "none"
        /\ \A m \in SysMetrics :
              AlertsFor(pass.check.alerts, m) = Expected(m, Evaluated(pass, m))

\* the alerts of a list follow the order temperature, humidity, cpu, memory,
\* disk
InMetricOrder(alerts) ==
    \A i, j \in 1..Len(alerts) :
        i < j => Pos(alerts[i].metric) < Pos(alerts[j].metric)

\* C15: check_alerts emits its alerts in the fixed order temperature,
\* humidity, cpu, memory, disk, whatever order the records were stored in;
\* the banner shows the first five of them in that order, so two passes over
\* the same frame with the same records inside the window show the same
\* banner.
C15_FixedOrder ==
    /\ InMetricOrder(pass.check.alerts)
    /\ pass.status = "ok" =>
          /\ InMetricOrder(pass.banner)
          /\ Len(pass.banner) <= BannerSize
          /\ \A i \in 1..Len(pass.banner) : pass.banner[i] = pass.check.alerts[i]
          /\ Len(pass.check.alerts) <= BannerSize => pass.banner = pass.check.alerts
    /\ (/\ SameFrame
        /\ RecentDf(prev.df, prev.at) = RecentDf(pass.df, pass.at)
        /\ prev.status = "ok" /\ pass.status = "ok") =>
          prev.banner = pass.banner

\* two passes over one frame, the system_health record newer than the
\* temperature record and so ahead of it in the frame, both showing the temperature alert before the two
\* system alerts
C15_Witness ==
    /\ SameFrame
    /\ prev.status = "ok" /\ pass.status = "ok"
    /\ Len(pass.banner) = 3
    /\ pass.banner[1].metric = "temperature"
    /\ pass.banner[2].metric = "cpu"
    /\ pass.banner[3].metric = "disk"
    /\ prev.banner = pass.banner
    /\ \E s \in index, d \in index :
          s.sensor_type = "system_health" /\ d.sensor_type = "temperature"
             /\ s.ts > d.ts

\* the request answered last was GET /dashboard/ with the token of the
\* client's last successful login as its 'token' cookie, sent before the
\* token's expiry
CarriesLoginToken ==
    /\ response.request.method = "GET"
    /\ response.request.path = DashboardSlash
    /\ cookies # NoToken
    /\ response.request.cookie = cookies
    /\ response.at < cookies.exp

\* C16: after a successful login, a GET /dashboard/ carrying the returned
\* token as its 'token' cookie before the token's expiry is never redirected
\* to /login, and where the dashboard is attached it is answered by the
\* dashboard with 200.
C16_TokenAdmitted ==
    CarriesLoginToken =>
        /\ response.by # "redirect"
        /\ response.status # 302
        /\ (server = "integrated_app" \/ mounted) =>
              (response.by = "dashboard" /\ response.status = 200)

\* half a day after the login the token opened the dashboard of
\* integrated_app.py
C16_Witness ==
    /\ CarriesLoginToken
    /\ server = "integrated_app"
    /\ response.at = TokenLife \div 2
    /\ cookies.exp = TokenLife
    /\ response.by = "dashboard"
    /\ response.status = 200

\* the request answered last was POST /api/login
LoginAnswered ==
    response.request.method = "POST" /\ response.request.path = ApiLogin

\* the users the credentials of the login answered last belong to: the
\* email, stripped and lower-cased, is the user's and the password is the
\* one the user's hash was made of
Authenticated ==
    {u \in users :
        /\ u.email = Lower(Strip(response.request.data.email))
        /\ u.password.of = response.request.data.password}

\* C17: a login with the email and current password of a registered user is
\* answered 200 with success true, a token naming the user and running 24
\* hours, and a 'token' cookie with the same token; a login with an unknown
\* email or a wrong password is answered 401 with success false, and no
\* failed login gives a token or a cookie.
C17_Login ==
    LoginAnswered =>
        LET d == response.request.data
        IN /\ \A u \in Authenticated :
                 /\ response.status = 200
                 /\ response.success = "true"
                 /\ response.token = jwt_encode(u.email, response.at)
                 /\ response.set_cookie = response.token
           /\ (Authenticated = {} /\ d.email # <<>> /\ d.password # <<>>) =>
                 (response.status = 401 /\ response.success = "false")
           /\ Authenticated = {} =>
                 (response.token = NoToken /\ response.set_cookie = NoToken)

\* Ann, registered as a@b.c, logged in typing ' A@b.c' and got her token in
\* the body and in the cookie
C17_Witness ==
    /\ LoginAnswered
    /\ response.request.data.email = AnnAsTyped
    /\ response.status = 200
    /\ response.token.email = Ann
    /\ response.set_cookie = response.token
    /\ cookies = response.token
    /\ Cardinality(users) = 2

\* the call of check_alerts of pass p has ended
Ended(p) == calls[p].pc \in {"returned", "raised"}

\* C18: a pass changes neither the rule table nor the frame it was given,
\* and a call of check_alerts that overlaps another pass's call, in whatever
\* order their blocks run, ends as it would alone: with the outcome of
\* check_alerts on its frame at the time it was entered.
C18_NoSharedState ==
    /\ rules = ALERT_RULES
    /\ es_client = "client"
    /\ \A p \in Passes :
          /\ calls[p].df = calls[p].given
          /\ Ended(p) => Outcome(p) = check_alerts(calls[p].given, calls[p].at)

\* two calls entered at different times, with different records inside
\* their windows, ended each with its own alerts
C18_Witness ==
    /\ Ended(1) /\ Ended(2)
    /\ calls[1].at < calls[2].at
    /\ calls[1].recent_df # calls[2].recent_df
    /\ Len(Outcome(1).alerts) >= 2
    /\ Outcome(2).alerts # <<>>
    /\ Outcome(1).alerts # Outcome(2).alerts

\* what a malformed line is to give: a fragment with the number that opens
\* the text after the name and separator, a float for temperature and
\* humidity and an int for motion, and nothing when no number opens it
OddFragments(row, family) ==
    LET f == CHOOSE g \in OddForms : g.msg = row.message
    IN IF f.family = family /\ f.number
       THEN <<Fragment(row, IF family = "motion" THEN f.int ELSE f.float)>>
       ELSE <<>>

RECURSIVE OddCollected(_, _)
OddCollected(rows, family) ==
    IF rows = <<>> THEN <<>>
    ELSE OddFragments(Head(rows), family) \o OddCollected(Tail(rows), family)

\* C19: the extraction raises on no message; a metric name followed by text
\* that no number opens gives no fragment, and a number is taken up to where
\* it stops being one, as a float for temperature and humidity and as an int
\* for motion.
C19_NeverRaises ==
    /\ pass.section.status # "error"
    /\ (pass.section.status = "ok"
          /\ \A i \in 1..Len(pass.logs) : pass.logs[i].message \in OddMsgs) =>
          /\ pass.section.temp_data = OddCollected(pass.logs, "temperature")
          /\ pass.section.humidity_data = OddCollected(pass.logs, "humidity")
          /\ pass.section.motion_data = OddCollected(pass.logs, "motion")

\* the line 'Temperature: N/A' went through the extraction and left nothing
C19_Witness ==
    /\ pass.section.status = "ok"
    /\ Len(pass.logs) >= 1
    /\ pass.logs[1].message = Temperature_ \o <<":", " ", "N", "/", "A">>
    /\ pass.section.temp_data = <<>>
    /\ pass.section.humidity_data = <<>>
    /\ pass.section.motion_data = <<>>

(***************************************************************************)
(* Records at and above the critical threshold of each family of the rule  *)
(* table.                                                                  *)
(***************************************************************************)
Families == DOMAIN ALERT_RULES

RuleDocs ==
    UNION {{SensorDoc("temperature", "value", Num(ALERT_RULES.temperature.critical + n)),
            SensorDoc("humidity", "value", Num(ALERT_RULES.humidity.critical + n)),
            SysDoc(Num(ALERT_RULES.cpu.critical + n), Num(0), Num(0)),
            SysDoc(Num(0), Num(ALERT_RULES.memory.critical + n), Num(0)),
            SysDoc(Num(0), Num(0), Num(ALERT_RULES.disk.critical + n)),
            NetDoc(Num(ALERT_RULES.packet_loss.critical + n))} : n \in {0, 1}}

InitRules ==
    /\ index \in {S \in SUBSET {[shape EXCEPT !.ts = 0] : shape \in RuleDocs} :
                     Cardinality(S) <= MaxDocs}
    /\ loki = {}
    /\ es_client = "client"
    /\ now = 0
    /\ pass = NoPass
    /\ prev = NoPass
    /\ server = "integrated_app"
    /\ mounted = TRUE
    /\ response = NoResponse
    /\ users = {}
    /\ cookies = NoToken
    /\ rules = ALERT_RULES
    /\ calls = [p \in Passes |-> NoCall]
    /\ signups = [r \in Threads |-> NoSignup]
    /\ search = NoSearch

NextRules == UpdateDashboard

SpecRules == InitRules /\ [][NextRules]_vars

\* the sensor_type of the records of a family, and the family's reading in
\* a record
FamilyCategory(f) ==
    IF f = "packet_loss" THEN "network_device" ELSE Category(f)
FamilyReading(d, cols, f) ==
    IF f = "packet_loss" THEN Get(d, "packet_loss_percent", cols, Num(0))
    ELSE ReadingOf(d, cols, f)

\* in pass p the most recent record of family f inside the window has a
\* value at or above the family's critical threshold
CriticalReading(p, f) ==
    LET data == WindowOf(p, FamilyCategory(f))
        v == FamilyReading(iloc0(data), Columns(p.df), f)
    IN data # <<>> /\ v.k = "num" /\ v.v >= ALERT_RULES[f].critical

\* C20: every rule of ALERT_RULES is applied: for each of its families
\* (temperature, humidity, cpu, memory, disk, packet_loss), a most recent
\* record inside the window with a value at or above the family's critical
\* threshold makes check_alerts return a CRITICAL alert of that family.
C20_EveryRule ==
    \A f \in Families :
        (Called(pass) /\ CriticalReading(pass, f)) =>
            /\ pass.check.raised = "none"
            /\ \E i \in 1..Len(pass.check.alerts) :
                  /\ pass.check.alerts[i].metric = f
                  /\ pass.check.alerts[i].severity = "CRITICAL"

\* the reading C21 describes for record d and metric m: the record's own
\* field when the record has it, otherwise the record's 'value' field
OwnOrValue(d, m) == IF d[m] # Absent THEN d[m] ELSE d.value

\* C21: check_alerts evaluates the latest temperature (humidity) record on
\* the record's own 'temperature' ('humidity') field when the record has it
\* and otherwise on the record's 'value' field, whatever fields the other
\* records carry.
C21_OwnField ==
    \A m \in {"temperature", "humidity"} :
        LET data == WindowOf(pass, m)
            v == OwnOrValue(iloc0(data), m)
        IN (Reached(pass, m) /\ data # <<>> /\ v.k = "num") =>
              AlertsFor(pass.check.alerts, m) = Expected(m, v)

\* the records of frame df at most AlertWindow seconds old at time t
InsideWindow(df, t) == {df[i] : i \in {j \in DOMAIN df : df[j].ts >= t - AlertWindow}}

\* record d carries the reading v of metric m: in the field of m or, for a
\* sensor, in 'value'
Carries(d, m, v) ==
    /\ d.sensor_type = Category(m)
    /\ \/ m \in {"temperature", "humidity"} /\ Num(v) \in {d[m], d.value}
       \/ m \in {"cpu", "memory", "disk"} /\ d[SysField(m)] = Num(v)

\* C22: the banner is computed from the trailing 30 seconds only: every
\* alert of check_alerts, and of the banner, reports the reading of a record
\* at most 30 seconds old at evaluation time, so a record older than that
\* never produces one, whatever its value; and when no record of the frame
\* falls inside the window check_alerts returns an empty list.
C22_TrailingWindow ==
    Called(pass) =>
        /\ \A a \in Range(pass.check.alerts) \cup Range(pass.banner) :
              \E d \in InsideWindow(pass.df, pass.at) :
                  Carries(d, a.metric, a.value)
        /\ InsideWindow(pass.df, pass.at) = {} =>
              pass.check = Returned(<<>>) /\ pass.banner = <<>>

\* a pass whose frame holds only records more than 30 seconds old, one of
\* them at or above a critical threshold, and whose banner is empty
C22_Witness ==
    /\ Called(pass)
    /\ pass.status = "ok"
    /\ InsideWindow(pass.df, pass.at) = {}
    /\ \E i \in DOMAIN pass.df :
          /\ pass.df[i].ts < pass.at - AlertWindow
          /\ pass.df[i].sensor_type = "temperature"
          /\ pass.df[i].value.k = "num"
          /\ pass.df[i].value.v >= Critical("temperature")
    /\ pass.banner = <<>>

\* the message says 'motion detected', in any letter case
SaysMotionDetected(msg) == Contains(Lower(msg), motion_detected)

\* C23: a log message yields at most one motion fragment: when it holds an
\* explicit 'motion<sep><digits>' and the words 'motion detected', the one
\* fragment carries the explicit number; the implicit 1 is used only when no
\* explicit number matches (the other rows of the section mentioning no
\* metric name).
C23_OneMotionFragment ==
    \A i \in 1..Len(pass.logs) :
        LET row == pass.logs[i]
            sec == pass.section
            explicit == motion_match(row.message)
            alone == \A j \in 1..Len(pass.logs) :
                        j # i => MentionsNone(pass.logs[j].message)
        IN (sec.status = "ok" /\ alone) =>
              /\ Len(sec.motion_data) <= 1
              /\ explicit.found =>
                    sec.motion_data = <<Fragment(row, ParseInt(explicit.group))>>
              /\ (~explicit.found /\ SaysMotionDetected(row.message)) =>
                    sec.motion_data = <<Fragment(row, 1)>>
              /\ (~explicit.found /\ ~SaysMotionDetected(row.message)) =>
                    sec.motion_data = <<>>

\* 'Motion: 0 motion detected' was extracted as the one fragment motion 0
C23_Witness ==
    /\ pass.section.status = "ok"
    /\ Len(pass.logs) >= 1
    /\ pass.logs[1].message =
          Motion_ \o <<":", " ", "0", " ">> \o motion_ \o <<" ">> \o detected_
    /\ SaysMotionDetected(pass.logs[1].message)
    /\ pass.section.motion_data = <<Fragment(pass.logs[1], 0)>>

\* answer r is to a request for GET /api/profile, PUT /api/profile or
\* GET /api/users
ProfileAnswered(r) ==
    \/ r.request.path = ApiProfile /\ r.request.method \in {"GET", "PUT"}
    \/ r.request.path = ApiUsers /\ r.request.method = "GET"

\* the tokens the request of answer r carried, as cookie or in the header
TokensOf(r) ==
    {r.request.cookie, r.request.header.token} \ {NoToken}

\* the request of answer r carried a token signed with the server's secret,
\* not expired when it was answered, that names a user of collection us
Entitled(r, us) ==
    \E t \in TokensOf(r) :
        /\ t.key = "SECRET_KEY"
        /\ t.exp > r.at
        /\ \E u \in us : u.email = t.email

ProfileHandlers == {"get_profile", "update_profile", "get_users"}

\* C24: the handlers of GET /api/profile, PUT /api/profile and GET
\* /api/users run only for a request whose token is signed with the server's
\* secret, has not expired and names a user of the users collection; every
\* other request to them is answered 401 by token_required, shows no user
\* and leaves the users collection as it was.
C24_TokenRequired ==
    [][ProfileAnswered(response') =>
          /\ response'.by \in ProfileHandlers => Entitled(response', users)
          /\ ~ Entitled(response', users) =>
                /\ response'.status = 401
                /\ response'.by = "token_required"
                /\ response'.body = {}
                /\ users' = users]_vars

\* a PUT /api/profile carrying a new name and a token signed with another
\* key was answered 401 while Ann was registered under her name
C24_Witness ==
    /\ response.request.path = ApiProfile
    /\ response.request.method = "PUT"
    /\ response.request.header.token = ForgedToken
    /\ response.request.data.name = NewName
    /\ response.status = 401
    /\ \E u \in users : u.email = Ann /\ u.name = Strip(AnnName)

\* answer r is update_profile's 400: the new password is shorter than six
\* characters, or there is nothing to update
ProfileRefused(r) ==
    /\ r.request.path = ApiProfile
    /\ r.request.method = "PUT"
    /\ r.by = "update_profile"
    /\ r.status = 400

\* C27: a PUT /api/profile answered 400, for a new password shorter than six
\* characters or for no update data, leaves every stored user as it was,
\* name, password hash and updated_at, also when the request carried a valid
\* new name.
C27_RefusedUpdate ==
    [][ProfileRefused(response') => users' = users]_vars

\* half a day after Ann registered, her PUT with a new name and a password of
\* three characters was answered 400 and her document is the one of her
\* registration
C27_Witness ==
    /\ ProfileRefused(response)
    /\ response.at > 0
    /\ response.request.data.name = NewName
    /\ response.request.data.password = Short
    /\ response.request.header.token.email = Ann
    /\ \E u \in users :
          /\ u.email = Ann
          /\ u.name = Strip(AnnName)
          /\ u.password = generate_password_hash(Secret1)
          /\ u.updated_at = 0

\* answer r is update_profile's 200 to a request of user e that set a new
\* password
PasswordSet(r, e) ==
    /\ r.request.path = ApiProfile
    /\ r.request.method = "PUT"
    /\ r.by = "update_profile"
    /\ r.status = 200
    /\ r.request.data.password # <<>>
    /\ r.request.header.token.email = e

\* answer r is to a POST /api/login that named user u and gave a password
LoginOf(r, u) ==
    /\ r.request.method = "POST"
    /\ r.request.path = ApiLogin
    /\ r.request.data.password # <<>>
    /\ r.request.data.email # <<>>
    /\ Lower(Strip(r.request.data.email)) = u.email

\* C28: once a PUT /api/profile has set a new password, different from the
\* old one, every later login of that user is answered 200 with the new
\* password and 401 with the old one, until a PUT sets the user's password
\* again: the password a login must give is the one the PUT set, no other
\* step changes it, and a login giving it is answered 200 and a login giving
\* another 401.
C28_PasswordChange ==
    [][\A u \in users' :
          /\ IF PasswordSet(response', u.email) /\ response' # response
             THEN u.password.of = response'.request.data.password
             ELSE \E v \in users : v.email = u.email /\ v.password = u.password
          /\ (LoginOf(response', u) /\ response' # response) =>
                response'.status =
                   IF response'.request.data.password = u.password.of
                   THEN 200 ELSE 401]_vars

\* Ann set the password 'Secret' in place of 'secret', and her login with
\* 'secret' half a day later was answered 401
C28_Witness ==
    /\ LoginAnswered
    /\ response.request.data.email = Ann
    /\ response.request.data.password = Secret1
    /\ response.status = 401
    /\ response.at > 0
    /\ \E u \in users :
          /\ u.email = Ann
          /\ u.password = generate_password_hash(Secret2)
          /\ u.updated_at < response.at

\* token_required lets a request carrying 'Authorization: Bearer <t>' through
AcceptedByApi(t) ==
    token_required(GetRequest(ApiProfile, NoToken,
                              [scheme |-> "Bearer", token |-> t])).answer = Proceed

\* the dashboard check lets a request carrying t as its 'token' cookie through
AcceptedByDashboard(t) ==
    Serve(GetRequest(DashboardSlash, t, NoHeader)).by # "redirect"

\* C29: /logout changes no server-side state: the users collection is the
\* same after it, and a token that token_required or the dashboard check
\* accepts is still accepted after every step, a logout among them, as long
\* as it has not expired.
C29_LogoutKeepsTokens ==
    [][/\ (response'.by = "logout" /\ response' # response) => users' = users
       /\ \A t \in Tokens \cup {cookies} :
             t.exp > now' =>
                /\ AcceptedByApi(t) => AcceptedByApi(t)'
                /\ AcceptedByDashboard(t) => AcceptedByDashboard(t)']_vars

\* half a day after the login the browser opened /logout and dropped its
\* token, and the token it sent still passes token_required and the
\* dashboard check of integrated_app.py
C29_Witness ==
    /\ response.by = "logout"
    /\ response.at > 0
    /\ server = "integrated_app"
    /\ cookies = NoToken
    /\ response.request.cookie.exp = TokenLife
    /\ AcceptedByApi(response.request.cookie)
    /\ AcceptedByDashboard(response.request.cookie)

\* the email signup stores for the data of a request
Normalised(data) == Lower(Strip(data.email))

\* both threads have answered signups for the same normalised email, the
\* data of both passing signup's validation
SameEmailAnswered ==
    /\ \A r \in Threads : signups[r].pc = "done" /\ signups[r].status # 400
    /\ Normalised(signups[1].data) = Normalised(signups[2].data)

\* C25 as stated: of two signup requests for the same normalised email, in
\* any interleaving of their steps, exactly one creates a user (201) and the
\* other is answered 409, and the users collection never holds two users
\* with the same email.
C25_OneSignupWins ==
    /\ \A u, v \in users : u.email = v.email => u = v
    /\ SameEmailAnswered =>
          \E r \in Threads :
             /\ signups[r].status = 201
             /\ \A q \in Threads \ {r} : signups[q].status = 409

(***************************************************************************)
(* One reading seen by check_alerts, by the Elasticsearch branch of the    *)
(* alerts table and by its Loki branch.                                    *)
(***************************************************************************)
SeverityReadings(m) == {Lowest(m) - 1, Lowest(m), Critical(m)}

\* records with the reading in 'value', as the simulators send it, or in the
\* field named after the sensor, and records with a zero in that field next
\* to a reading in 'value'
SeverityDocs ==
    UNION {{SensorDoc(m, f, Num(v)) : f \in {m, "value"}, v \in SeverityReadings(m)}
           \cup {[SensorDoc(m, "value", Num(Critical(m))) EXCEPT ![m] = Num(0)]} :
             m \in {"temperature", "humidity"}}

InitSeverity ==
    /\ index \in {S \in SUBSET {[shape EXCEPT !.ts = 0] : shape \in SeverityDocs} :
                     Cardinality(S) <= MaxDocs}
    /\ loki = {}
    /\ es_client = "client"
    /\ now = 0
    /\ pass = NoPass
    /\ prev = NoPass
    /\ server = "integrated_app"
    /\ mounted = TRUE
    /\ response = NoResponse
    /\ users = {}
    /\ cookies = NoToken
    /\ rules = ALERT_RULES
    /\ calls = [p \in Passes |-> NoCall]
    /\ signups = [r \in Threads |-> NoSignup]
    /\ search = NoSearch

NextSeverity == UpdateDashboard

SpecSeverity == InitSeverity /\ [][NextSeverity]_vars

\* the decimal digits of a natural number, and a number of tenths written
\* with one decimal
RECURSIVE Digits(_)
Digits(n) ==
    IF n < 10 THEN <<DigitChars[n + 1]>>
    ELSE Digits(n \div 10) \o <<DigitChars[(n % 10) + 1]>>
Decimal(tenths) == Digits(tenths \div 10) \o <<".">> \o Digits(tenths % 10)

\* the log line 'Temperature: <n>' or 'Humidity: <n>'
LineOf(m, tenths) ==
    (IF m = "temperature" THEN Temperature_ ELSE Humidity_)
    \o <<":", " ">> \o Decimal(tenths)

\* the severities of a list of alerts or of table rows
Severities(found) == [i \in DOMAIN found |-> found[i].severity]

\* the severities the Loki branch of generate_alerts_table gives a line of
\* metric m carrying the number of tenths
LokiSeverities(m, tenths) ==
    Severities(
        IF m = "temperature"
        THEN LokiReading("Temperature", m, temp_match(LineOf(m, tenths)))
        ELSE LokiReading("Humidity", m, humidity_match(LineOf(m, tenths))))

\* C26 as stated: for any temperature or humidity record, the severity
\* check_alerts assigns when the record is the latest of its type equals the
\* severity of the row the Elasticsearch branch of generate_alerts_table
\* emits for the record, and equals the severity the Loki branch assigns to a
\* log line carrying the record's number.
C26_SameSeverity ==
    \A m \in {"temperature", "humidity"} :
        LET data == WindowOf(pass, m)
            d == iloc0(data)
            n == OwnOrValue(d, m)
            banner == Severities(AlertsFor(pass.check.alerts, m))
            row == Severities(EsRowAlerts(d, Columns(pass.df)).alerts)
        IN (Reached(pass, m) /\ data # <<>>) =>
              /\ banner = row
              /\ n.k = "num" => banner = LokiSeverities(m, n.v)

\* C30: after any sequence of clicks on the search and reset buttons, the
\* stored search filter is '' if the last click was on reset or the search
\* input was empty at the last click on search, and otherwise the search
\* input of the last click on search in lower case.
C30_StoredFilter ==
    /\ search.triggered = "" => search.filter = <<>>
    /\ search.triggered = "reset-button" => search.filter = <<>>
    /\ search.triggered = "search-button" =>
          search.filter = IF search.search_value.s = <<>> THEN <<>>
                          ELSE Lower(search.search_value.s)

\* after a search for 'TEMPERATURE' and a reset, the third click searched
\* for 'Temperature' and the filter is 'temperature', the input edited since
C30_Witness ==
    /\ search.search_clicks = 2
    /\ search.reset_clicks = 1
    /\ search.triggered = "search-button"
    /\ search.search_value = Text(Temperature_)
    /\ search.filter = temperature_
    /\ search.input = Text(<<>>)

====
